---- MODULE Spec2Model ----
(***************************************************************************)
(* A model of the FitRose calorie bot: the SQLite storage layer            *)
(* (calorie_bot/storage.py) and the conversation handlers of the Telegram  *)
(* bot (calorie_bot/bot.py).                                               *)
(*                                                                         *)
(* Tables are sequences of rows; a row's id is its index (AUTOINCREMENT,   *)
(* rows are never deleted).  A Python dict is a function whose domain is   *)
(* the set of keys present.  Text is a sequence of tokens, so that joining *)
(* and prefixing are real operations.  REAL columns hold small naturals.   *)
(***************************************************************************)
EXTENDS Integers, Sequences, FiniteSets, TLC

VARIABLES users, day_logs, meals, reg, conv, user_data, today, out

vars == <<users, day_logs, meals, reg, conv, user_data, today, out>>

(***************************************************************************)
(* Bounds of the model.                                                    *)
(***************************************************************************)
MaxDayLogs == 2
MaxMeals == 3
MaxConfirmed == 1
MaxCorrections == 2
MaxDiaryMeals == 3
MaxStatsMeals == 2

\* The Telegram ids of the users and the calendar dates of the model.
Users == {1, 2}
Dates == {1, 2}

(***************************************************************************)
(* Python dict operations.                                                 *)
(***************************************************************************)
EmptyDict == [k \in {} |-> 0]

Has(d, k) == k \in DOMAIN d

Put(d, k, v) == [x \in (DOMAIN d) \cup {k} |-> IF x = k THEN v ELSE d[x]]

Pop(d, ks) == [x \in (DOMAIN d) \ ks |-> d[x]]

(***************************************************************************)
(* Values of the nutrition oracle: a MealAnalysis (llm.py) and its dict.   *)
(***************************************************************************)
Macros == {"calories", "protein", "fat", "carbs"}

MealAnalysis(c, p, f, cb) ==
    [calories |-> c, protein |-> p, fat |-> f, carbs |-> cb, notes |-> <<>>, items |-> <<>>]

Analyses == {MealAnalysis(100, 10, 5, 20), MealAnalysis(250, 30, 15, 40)}

to_dict(analysis) ==
    [calories |-> analysis.calories, protein |-> analysis.protein,
     fat |-> analysis.fat, carbs |-> analysis.carbs,
     notes |-> analysis.notes, items |-> analysis.items]

Payloads == {to_dict(a) : a \in Analyses}

FirstPayload == to_dict(MealAnalysis(100, 10, 5, 20))

SecondPayload == to_dict(MealAnalysis(250, 30, 15, 40))

(***************************************************************************)
(* storage.py: rows and queries.                                           *)
(***************************************************************************)
DayLogRow(telegram_id, day, status) ==
    [telegram_id |-> telegram_id, day |-> day,
     total_calories |-> 0, total_protein |-> 0, total_fat |-> 0, total_carbs |-> 0,
     status |-> status]

\* date.isoformat() and date.fromisoformat(): the day column holds ISO text, whose
\* order (zero-padded fields) is the order of the dates.
DigitValue ==
    [c \in {"0", "1", "2", "3", "4", "5", "6", "7", "8", "9"} |->
        CASE c = "0" -> 0 [] c = "1" -> 1 [] c = "2" -> 2 [] c = "3" -> 3 [] c = "4" -> 4
          [] c = "5" -> 5 [] c = "6" -> 6 [] c = "7" -> 7 [] c = "8" -> 8 [] c = "9" -> 9]

\* The character of the digit n.
digit(n) == CHOOSE c \in DOMAIN DigitValue : DigitValue[c] = n

\* A date is the number of its day; its ISO text has zero-padded fields of fixed
\* width, here the two digits of the number.
isoformat(d) == <<digit(d \div 10), digit(d % 10)>>

fromisoformat(s) == 10 * DigitValue[s[1]] + DigitValue[s[2]]

\* a <= b for TEXT values (BINARY collation): the first differing character
\* decides, and a prefix comes first.
RECURSIVE text_le(_, _)
text_le(a, b) ==
    IF a = <<>> THEN TRUE
    ELSE IF b = <<>> THEN FALSE
    ELSE IF Head(a) = Head(b) THEN text_le(Tail(a), Tail(b))
    ELSE DigitValue[Head(a)] < DigitValue[Head(b)]

iso_le(a, b) == text_le(a, b)

\* SELECT id FROM day_logs WHERE telegram_id=? AND day=?   (0: no row)
find_day_log(logs, telegram_id, day) ==
    IF \E i \in DOMAIN logs : logs[i].telegram_id = telegram_id /\ logs[i].day = day
    THEN CHOOSE i \in DOMAIN logs : logs[i].telegram_id = telegram_id /\ logs[i].day = day
    ELSE 0

\* set_active_day without its second UPDATE: the other rows keep their status.
set_active_day_keeps_others(logs, telegram_id, log_date) ==
    LET day_str == isoformat(log_date)
        row == find_day_log(logs, telegram_id, day_str)
    IN  IF row # 0
        THEN [logs |-> [logs EXCEPT ![row].status = "active"], id |-> row]
        ELSE [logs |-> Append(logs, DayLogRow(telegram_id, day_str, "active")),
              id |-> Len(logs) + 1]

\* set_active_day without its SELECT: a row is inserted in every call.
set_active_day_always_inserts(logs, telegram_id, log_date) ==
    LET day_str == isoformat(log_date)
        day_log_id == Len(logs) + 1
        marked == Append(logs, DayLogRow(telegram_id, day_str, "active"))
    IN  [logs |-> [i \in DOMAIN marked |->
                      IF marked[i].telegram_id = telegram_id /\ i # day_log_id
                      THEN [marked[i] EXCEPT !.status = "closed"]
                      ELSE marked[i]],
         id |-> day_log_id]

\* set_active_day writing a fresh active row over the row it found.
set_active_day_replaces_row(logs, telegram_id, log_date) ==
    LET day_str == isoformat(log_date)
        row == find_day_log(logs, telegram_id, day_str)
        day_log_id == IF row # 0 THEN row ELSE Len(logs) + 1
        marked == IF row # 0
                  THEN [logs EXCEPT ![row] = DayLogRow(telegram_id, day_str, "active")]
                  ELSE Append(logs, DayLogRow(telegram_id, day_str, "active"))
    IN  [logs |-> [i \in DOMAIN marked |->
                      IF marked[i].telegram_id = telegram_id /\ i # day_log_id
                      THEN [marked[i] EXCEPT !.status = "closed"]
                      ELSE marked[i]],
         id |-> day_log_id]

\* INSERT INTO day_logs ... / UPDATE day_logs SET status='active' ...; then every
\* other row of the user is closed.  Returns the table and the row's id.
\* set_active_day closing with no WHERE telegram_id = ?.
set_active_day_closes_every_user(logs, telegram_id, log_date) ==
    LET day_str == isoformat(log_date)
        row == find_day_log(logs, telegram_id, day_str)
        day_log_id == IF row # 0 THEN row ELSE Len(logs) + 1
        marked == IF row # 0
                  THEN [logs EXCEPT ![row].status = "active"]
                  ELSE Append(logs, DayLogRow(telegram_id, day_str, "active"))
    IN  [logs |-> [i \in DOMAIN marked |->
                      IF i # day_log_id
                      THEN [marked[i] EXCEPT !.status = "closed"]
                      ELSE marked[i]],
         id |-> day_log_id]

set_active_day(logs, telegram_id, log_date) ==
    LET day_str == isoformat(log_date)
        row == find_day_log(logs, telegram_id, day_str)
        day_log_id == IF row # 0 THEN row ELSE Len(logs) + 1
        marked == IF row # 0
                  THEN [logs EXCEPT ![row].status = "active"]
                  ELSE Append(logs, DayLogRow(telegram_id, day_str, "active"))
    IN  [logs |-> [i \in DOMAIN marked |->
                      IF marked[i].telegram_id = telegram_id /\ i # day_log_id
                      THEN [marked[i] EXCEPT !.status = "closed"]
                      ELSE marked[i]],
         id |-> day_log_id]

\* Finds or inserts the row as closed.
ensure_day_log(logs, telegram_id, log_date) ==
    LET day_str == isoformat(log_date)
        row == find_day_log(logs, telegram_id, day_str)
    IN  IF row # 0
        THEN [logs |-> logs, id |-> row]
        ELSE [logs |-> Append(logs, DayLogRow(telegram_id, day_str, "closed")),
              id |-> Len(logs) + 1]

\* SELECT id, day ... WHERE status='active' ORDER BY day DESC LIMIT 1
\* (<<>>: None, <<r>>: the dict r)
get_active_day(logs, telegram_id) ==
    LET act == {i \in DOMAIN logs :
                   logs[i].telegram_id = telegram_id /\ logs[i].status = "active"}
    IN  IF act = {}
        THEN <<>>
        ELSE LET i == CHOOSE i \in act : \A j \in act : iso_le(logs[j].day, logs[i].day)
             IN  <<[id |-> i, day |-> fromisoformat(logs[i].day)]>>

\* close_day with its UPDATE left out.
close_day_keeps_status(logs, telegram_id, log_date) == logs

\* close_day writing a fresh closed row over the day's row.
close_day_resets_totals(logs, telegram_id, log_date) ==
    LET day_str == isoformat(log_date)
    IN  [i \in DOMAIN logs |->
            IF logs[i].telegram_id = telegram_id /\ logs[i].day = day_str
            THEN DayLogRow(telegram_id, day_str, "closed")
            ELSE logs[i]]

close_day(logs, telegram_id, log_date) ==
    LET day_str == isoformat(log_date)
    IN  [i \in DOMAIN logs |->
            IF logs[i].telegram_id = telegram_id /\ logs[i].day = day_str
            THEN [logs[i] EXCEPT !.status = "closed"]
            ELSE logs[i]]

\* json.dumps(payload) if payload else None
json_dumps(payload) == IF DOMAIN payload = {} THEN <<>> ELSE <<"json", payload>>

\* The committed value of one macro at insertion: the corrected payload's when
\* there is one, else the oracle payload's (0 when the key is missing).
committed(llm_payload, corrected_payload, k) ==
    IF DOMAIN corrected_payload # {}
    THEN corrected_payload[k]
    ELSE IF Has(llm_payload, k) THEN llm_payload[k] ELSE 0

MealRow(day_log_id, meal_type, entry_type, user_input, llm_payload, corrected_payload) ==
    [day_log_id |-> day_log_id, meal_type |-> meal_type, entry_type |-> entry_type,
     user_input |-> user_input,
     llm_payload |-> json_dumps(llm_payload),
     corrected_payload |-> json_dumps(corrected_payload),
     calories |-> committed(llm_payload, corrected_payload, "calories"),
     protein |-> committed(llm_payload, corrected_payload, "protein"),
     fat |-> committed(llm_payload, corrected_payload, "fat"),
     carbs |-> committed(llm_payload, corrected_payload, "carbs")]

\* The sum without its WHERE clause: every day's meals are counted.
RECURSIVE sum_column_all_days(_, _, _)
sum_column_all_days(mls, day_log_id, column) ==
    IF mls = <<>>
    THEN 0
    ELSE Head(mls)[column] + sum_column_all_days(Tail(mls), day_log_id, column)

\* SELECT COALESCE(SUM(<column>), 0) FROM meals WHERE day_log_id=?
RECURSIVE sum_column(_, _, _)
sum_column(mls, day_log_id, column) ==
    IF mls = <<>>
    THEN 0
    ELSE (IF Head(mls).day_log_id = day_log_id THEN Head(mls)[column] ELSE 0)
         + sum_column(Tail(mls), day_log_id, column)

\* UPDATE day_logs SET total_calories = (SELECT ...), ... WHERE id=?
recompute_totals(logs, mls, day_log_id) ==
    [i \in DOMAIN logs |->
        IF i = day_log_id
        THEN [logs[i] EXCEPT !.total_calories = sum_column(mls, day_log_id, "calories"),
                             !.total_protein = sum_column(mls, day_log_id, "protein"),
                             !.total_fat = sum_column(mls, day_log_id, "fat"),
                             !.total_carbs = sum_column(mls, day_log_id, "carbs")]
        ELSE logs[i]]

\* Inserts the meal, then recomputes the day's totals in the same transaction.
add_meal_entry(logs, mls, day_log_id, meal_type, entry_type, user_input, llm_payload, corrected_payload) ==
    LET inserted == Append(mls, MealRow(day_log_id, meal_type, entry_type, user_input,
                                        llm_payload, corrected_payload))
    IN  [logs |-> recompute_totals(logs, inserted, day_log_id),
         meals |-> inserted,
         id |-> Len(inserted)]

\* UPDATE meals SET corrected_payload=?, calories=?, ... WHERE id=?
update_meal_corrections(mls, meal_id, payload) ==
    [i \in DOMAIN mls |->
        IF i = meal_id
        THEN [mls[i] EXCEPT !.corrected_payload = <<"json", payload>>,
                            !.calories = IF Has(payload, "calories") THEN payload.calories ELSE 0,
                            !.protein = IF Has(payload, "protein") THEN payload.protein ELSE 0,
                            !.fat = IF Has(payload, "fat") THEN payload.fat ELSE 0,
                            !.carbs = IF Has(payload, "carbs") THEN payload.carbs ELSE 0]
        ELSE mls[i]]

\* SELECT * FROM meals WHERE day_log_id=? ORDER BY created_at
list_meals(mls, day_log_id) == SelectSeq(mls, LAMBDA m : m.day_log_id = day_log_id)

\* (<<>>: None, <<s>>: the summary s)
get_day_summary(logs, mls, telegram_id, log_date) ==
    LET day_str == isoformat(log_date)
        row == find_day_log(logs, telegram_id, day_str)
    IN  IF row = 0
        THEN <<>>
        ELSE <<[day |-> day_str,
                totals |-> [calories |-> logs[row].total_calories,
                            protein |-> logs[row].total_protein,
                            fat |-> logs[row].total_fat,
                            carbs |-> logs[row].total_carbs],
                meals |-> list_meals(mls, row)]>>

\* ORDER BY day: the rows of the set, the smallest day text first.
RECURSIVE ordered_by_day(_, _)
ordered_by_day(logs, rows) ==
    IF rows = {} THEN <<>>
    ELSE LET first == CHOOSE i \in rows : \A j \in rows : text_le(logs[i].day, logs[j].day)
         IN  <<first>> \o ordered_by_day(logs, rows \ {first})

\* The row as the SELECT's columns.
period_entry(row) ==
    [day |-> row.day, total_calories |-> row.total_calories,
     total_protein |-> row.total_protein, total_fat |-> row.total_fat,
     total_carbs |-> row.total_carbs]

\* iter_period_totals without its ORDER BY: the rows come in the order of their ids.
iter_period_totals_unordered(logs, telegram_id, start, end) ==
    LET selected == SelectSeq(logs, LAMBDA r :
                        /\ r.telegram_id = telegram_id
                        /\ text_le(isoformat(start), r.day)
                        /\ text_le(r.day, isoformat(end)))
    IN  [i \in DOMAIN selected |-> period_entry(selected[i])]

\* SELECT day, total_* FROM day_logs WHERE telegram_id=? AND day BETWEEN ? AND ?
\* ORDER BY day
iter_period_totals(logs, telegram_id, start, end) ==
    LET rows == {i \in DOMAIN logs :
                    /\ logs[i].telegram_id = telegram_id
                    /\ text_le(isoformat(start), logs[i].day)
                    /\ text_le(logs[i].day, isoformat(end))}
        ordered == ordered_by_day(logs, rows)
    IN  [i \in DOMAIN ordered |-> period_entry(logs[ordered[i]])]

(***************************************************************************)
(* calculations.py.  A float is held as a whole number of 1/Unit, which is *)
(* exact for every value computed from inputs of at most three decimals.   *)
(***************************************************************************)
Unit == 128000

\* The float of an integer.
as_float(n) == n * Unit

\* x * (num / den), den dividing x.
times(x, num, den) == (x \div den) * num

SexValues == {"male", "female"}

GoalValues == {"lose", "maintain", "gain"}

ActivityLevelValues == {"sedentary", "light", "moderate", "high", "very_high"}

\* 1.2, 1.375, 1.55, 1.725, 1.9
ACTIVITY_FACTORS ==
    [sedentary |-> <<6, 5>>, light |-> <<11, 8>>, moderate |-> <<31, 20>>,
     high |-> <<69, 40>>, very_high |-> <<19, 10>>]

\* 2.2, 2.0, 2.2
PROTEIN_TARGETS == [lose |-> <<11, 5>>, maintain |-> <<2, 1>>, gain |-> <<11, 5>>]

\* 1.0, 1.2, 1.3
FAT_TARGETS == [lose |-> <<1, 1>>, maintain |-> <<6, 5>>, gain |-> <<13, 10>>]

\* calculate_bmr with the offset of the male formula in both formulas.
calculate_bmr_same_offset(weight, height, age, sex) ==
    IF sex \in {"male", "female"}
    THEN 10 * weight + times(height, 625, 100) - 5 * as_float(age) + as_float(5)
    ELSE "ValueError"

\* calculate_bmr with the age term added instead of subtracted.
calculate_bmr_age_added(weight, height, age, sex) ==
    IF sex = "male"
    THEN 10 * weight + times(height, 625, 100) + 5 * as_float(age) + as_float(5)
    ELSE IF sex = "female"
    THEN 10 * weight + times(height, 625, 100) + 5 * as_float(age) - as_float(161)
    ELSE "ValueError"

\* 10 * weight + 6.25 * height - 5 * age + 5 (male) or - 161 (female)
calculate_bmr(weight, height, age, sex) ==
    IF sex = "male"
    THEN 10 * weight + times(height, 625, 100) - 5 * as_float(age) + as_float(5)
    ELSE IF sex = "female"
    THEN 10 * weight + times(height, 625, 100) - 5 * as_float(age) - as_float(161)
    ELSE "ValueError"

calculate_tdee(bmr, activity_level) ==
    times(bmr, ACTIVITY_FACTORS[activity_level][1], ACTIVITY_FACTORS[activity_level][2])

calculate_calorie_target(tdee, goal) ==
    IF goal = "lose" THEN times(tdee, 4, 5)
    ELSE IF goal = "maintain" THEN tdee
    ELSE IF goal = "gain" THEN times(tdee, 6, 5)
    ELSE "ValueError"

\* calculate_macros without the max(..., 0) around the carbohydrate calories.
calculate_macros_unclamped(weight, calorie_target, goal) ==
    LET protein_g == times(weight, PROTEIN_TARGETS[goal][1], PROTEIN_TARGETS[goal][2])
        fat_g == times(weight, FAT_TARGETS[goal][1], FAT_TARGETS[goal][2])
        calories_from_protein == protein_g * 4
        calories_from_fat == fat_g * 9
        carb_calories == calorie_target - (calories_from_protein + calories_from_fat)
    IN  <<protein_g, fat_g, carb_calories \div 4>>

\* (protein_g, fat_g, carb_g)
calculate_macros(weight, calorie_target, goal) ==
    LET protein_g == times(weight, PROTEIN_TARGETS[goal][1], PROTEIN_TARGETS[goal][2])
        fat_g == times(weight, FAT_TARGETS[goal][1], FAT_TARGETS[goal][2])
        calories_from_protein == protein_g * 4
        calories_from_fat == fat_g * 9
        left == calorie_target - (calories_from_protein + calories_from_fat)
        carb_calories == IF left > 0 THEN left ELSE 0
    IN  <<protein_g, fat_g, carb_calories \div 4>>

\* build_metrics handing the tdee, not the calorie target, to calculate_macros.
build_metrics_macros_of_tdee(weight, height, age, sex, activity, goal) ==
    LET bmr == calculate_bmr(weight, height, age, sex)
        tdee == calculate_tdee(bmr, activity)
        calorie_target == calculate_calorie_target(tdee, goal)
        macros == calculate_macros(weight, tdee, goal)
    IN  [bmr |-> bmr, tdee |-> tdee, calorie_target |-> calorie_target,
         protein_target_g |-> macros[1], fat_target_g |-> macros[2],
         carb_target_g |-> macros[3]]

build_metrics(weight, height, age, sex, activity, goal) ==
    LET bmr == calculate_bmr(weight, height, age, sex)
        tdee == calculate_tdee(bmr, activity)
        calorie_target == calculate_calorie_target(tdee, goal)
        macros == calculate_macros(weight, calorie_target, goal)
    IN  [bmr |-> bmr, tdee |-> tdee, calorie_target |-> calorie_target,
         protein_target_g |-> macros[1], fat_target_g |-> macros[2],
         carb_target_g |-> macros[3]]

(***************************************************************************)
(* storage.py: the users table.  users[id] is what get_user returns:       *)
(* <<>> for None, <<user>> for the stored User.                            *)
(***************************************************************************)
\* The User built with height and weight in each other's place.
User_height_weight_swapped(telegram_id, age, sex, height, weight, activity, goal, metrics) ==
    [telegram_id |-> telegram_id, age |-> age, sex |-> sex, height |-> weight,
     weight |-> height, activity |-> activity, goal |-> goal, metrics |-> metrics]

User(telegram_id, age, sex, height, weight, activity, goal, metrics) ==
    [telegram_id |-> telegram_id, age |-> age, sex |-> sex, height |-> height,
     weight |-> weight, activity |-> activity, goal |-> goal, metrics |-> metrics]

\* INSERT INTO users ... ON CONFLICT(telegram_id) DO UPDATE SET ...
upsert_user(table, user) == [table EXCEPT ![user.telegram_id] = <<user>>]

(***************************************************************************)
(* The state after construction.  The database file outlives the process   *)
(* (CREATE TABLE IF NOT EXISTS), so the users table may already hold       *)
(* profiles; the two conversations (reg: registration, conv: meal logging) *)
(* and user_data are in memory and start empty.                            *)
(***************************************************************************)
MEAL_TYPES == {"breakfast", "lunch", "dinner", "snack"}

ENTRY_TYPES == {"text", "image"}

\* A stored profile: age 30, male, 175 cm, 70 kg, moderate activity, maintain.
StoredUser(telegram_id) ==
    User(telegram_id, 30, "male", as_float(175), as_float(70), "moderate", "maintain",
         build_metrics(as_float(70), as_float(175), 30, "male", "moderate", "maintain"))

Init ==
    /\ users = [u \in Users |-> <<StoredUser(u)>>]
    /\ day_logs = <<>>
    /\ meals = <<>>
    /\ reg = [u \in Users |-> "END"]
    /\ conv = [u \in Users |-> "END"]
    /\ user_data = [u \in Users |-> EmptyDict]
    /\ today = 1
    /\ out = [op |-> "init"]

(***************************************************************************)
(* The storage layer called directly: any caller, any arguments.           *)
(***************************************************************************)
session_vars == <<users, reg, conv, user_data, today>>

CallSetActiveDay(u, d) ==
    /\ find_day_log(day_logs, u, isoformat(d)) # 0 \/ Len(day_logs) < MaxDayLogs
    /\ LET r == set_active_day(day_logs, u, d)
       IN  /\ day_logs' = r.logs
           /\ out' = [op |-> "set_active_day", telegram_id |-> u, log_date |-> d, id |-> r.id]
    /\ UNCHANGED <<meals, session_vars>>

CallEnsureDayLog(u, d) ==
    /\ find_day_log(day_logs, u, isoformat(d)) # 0 \/ Len(day_logs) < MaxDayLogs
    /\ LET r == ensure_day_log(day_logs, u, d)
       IN  /\ day_logs' = r.logs
           /\ out' = [op |-> "ensure_day_log", telegram_id |-> u, log_date |-> d, id |-> r.id]
    /\ UNCHANGED <<meals, session_vars>>

CallCloseDay(u, d) ==
    /\ day_logs' = close_day(day_logs, u, d)
    /\ out' = [op |-> "close_day", telegram_id |-> u, log_date |-> d]
    /\ UNCHANGED <<meals, session_vars>>

CallAddMealEntry(id, meal_type, entry_type, llm_payload, corrected_payload) ==
    /\ Len(meals) < MaxMeals
    /\ LET r == add_meal_entry(day_logs, meals, id, meal_type, entry_type, <<"a">>,
                               llm_payload, corrected_payload)
       IN  /\ day_logs' = r.logs
           /\ meals' = r.meals
           /\ out' = [op |-> "add_meal_entry", day_log_id |-> id, id |-> r.id]
    /\ UNCHANGED session_vars

CallUpdateMealCorrections(meal_id, payload) ==
    /\ meals' = update_meal_corrections(meals, meal_id, payload)
    /\ out' = [op |-> "update_meal_corrections", id |-> meal_id]
    /\ UNCHANGED <<day_logs, session_vars>>

CallIterPeriodTotals(u, start, end) ==
    /\ out' = [op |-> "iter_period_totals", telegram_id |-> u, start |-> start,
               end |-> end, rows |-> iter_period_totals(day_logs, u, start, end)]
    /\ UNCHANGED <<day_logs, meals, session_vars>>

\* Day selections and day closings only.
NextDays ==
    \/ \E u \in Users, d \in Dates : CallSetActiveDay(u, d)
    \/ \E u \in Users, d \in Dates : CallEnsureDayLog(u, d)
    \/ \E u \in Users, d \in Dates : CallCloseDay(u, d)

SpecDays == Init /\ [][NextDays]_vars

\* Day selections and meal insertions.
NextMeals ==
    \/ \E u \in Users, d \in Dates : CallSetActiveDay(u, d)
    \/ \E id \in DOMAIN day_logs, llm \in {FirstPayload}, cor \in {EmptyDict, SecondPayload} :
            CallAddMealEntry(id, "breakfast", "text", llm, cor)

SpecMeals == Init /\ [][NextMeals]_vars

\* Day selections, meal insertions and corrections of stored meals.
NextCorrections ==
    \/ \E u \in Users, d \in Dates : CallSetActiveDay(u, d)
    \/ \E id \in DOMAIN day_logs, llm \in {FirstPayload}, cor \in {EmptyDict, SecondPayload} :
            CallAddMealEntry(id, "breakfast", "text", llm, cor)
    \/ \E m \in DOMAIN meals, payload \in {SecondPayload} : CallUpdateMealCorrections(m, payload)

SpecCorrections == Init /\ [][NextCorrections]_vars

(***************************************************************************)
(* bot.py: the handlers.  An event of user u is handled to its end before  *)
(* the next one; a text reaches the meal-logging conversation only when    *)
(* the registration conversation, which comes first, is in no state (reg   *)
(* is "END"); `out` describes the last event handled: the handler, the  *)
(* user, the reply and the oracle calls made.  A handler that raises       *)
(* leaves the conversation state as it was (the error handler replies).    *)
(***************************************************************************)
\* Texts are sequences of tokens.
Descriptions == {<<"soup">>}

Captions == {<<>>}

CorrectionTexts == {<<"less">>, <<"more">>}

\* The downloaded photo (never empty); <<>> stands for None.
Photos == {<<"jpeg">>}

NoPhoto == <<>>

\* str.strip() on a text: blank tokens at both ends are dropped.
RECURSIVE strip(_)
strip(t) ==
    IF t = <<>> THEN t
    ELSE IF Head(t) = " " THEN strip(Tail(t))
    ELSE IF t[Len(t)] = " " THEN strip(SubSeq(t, 1, Len(t) - 1))
    ELSE t

\* sep.join(parts)
RECURSIVE join(_, _)
join(sep, parts) ==
    IF parts = <<>> THEN <<>>
    ELSE IF Len(parts) = 1 THEN parts[1]
    ELSE parts[1] \o <<sep>> \o join(sep, Tail(parts))

\* "\n".join(f"- {item.strip()}" for item in proposed if item and item.strip())
RECURSIVE bulleted(_)
bulleted(items) ==
    IF items = <<>> THEN <<>>
    ELSE IF strip(Head(items)) = <<>> THEN bulleted(Tail(items))
    ELSE <<(<<"- ">> \o strip(Head(items)))>> \o bulleted(Tail(items))

corrections_text(proposed) == join("\n", bulleted(proposed))

\* The oracle's answer to one call: it fails, or it returns a MealAnalysis.
OracleFailed == [ok |-> FALSE]

OracleAnswers == {OracleFailed} \cup {[ok |-> TRUE, analysis |-> a] : a \in Analyses}

Get(d, k, default) == IF Has(d, k) THEN d[k] ELSE default

_reset_entry_context_keeps_corrections(ud) ==
    Pop(ud, {"analysis", "user_input", "original_description", "entry_type", "meal_type"})

_reset_entry_context(ud) ==
    Pop(ud, {"analysis", "user_input", "original_description", "photo_bytes",
             "corrections", "entry_type", "meal_type"})

\* _set_active_log calling ensure_day_log in place of set_active_day.
_set_active_log_ensures_only(logs, ud, telegram_id, log_day) ==
    LET r == ensure_day_log(logs, telegram_id, log_day)
    IN  [logs |-> r.logs,
         id |-> r.id,
         ud |-> Put(Put(Put(ud, "log_date", log_day), "day_log_id", r.id),
                    "active_day_info", [id |-> r.id, day |-> log_day])]

\* storage.set_active_day, then the three keys of the selected day.
_set_active_log(logs, ud, telegram_id, log_day) ==
    LET r == set_active_day(logs, telegram_id, log_day)
    IN  [logs |-> r.logs,
         id |-> r.id,
         ud |-> Put(Put(Put(ud, "log_date", log_day), "day_log_id", r.id),
                    "active_day_info", [id |-> r.id, day |-> log_day])]

\* Whether selecting log_day keeps the day_logs table within the model's bound.
RoomForDay(u, log_day) ==
    find_day_log(day_logs, u, isoformat(log_day)) # 0 \/ Len(day_logs) < MaxDayLogs

\* The reply is "none" when nothing is sent: _ensure_user calls reply_text
\* without awaiting it, so its message to a user without a profile never leaves.
Reply(op, u, reply) == [op |-> op, user |-> u, reply |-> reply, calls |-> <<>>]

\* log_day_start going on to the choice of the day when _ensure_user found no
\* profile.
log_day_start_ignores_ensure_user(u) ==
    /\ conv[u] = "END"
    /\ IF users[u] = <<>>
       THEN /\ out' = Reply("log_day_start", u, "offer_dates")
            /\ conv' = [conv EXCEPT ![u] = "CHOOSE_DAY"]
            /\ UNCHANGED user_data
       ELSE LET active_day == get_active_day(day_logs, u)
                ud == Put(user_data[u], "current_user", users[u][1])
            IN  /\ user_data' = [user_data EXCEPT ![u] =
                                    IF active_day # <<>>
                                    THEN Put(ud, "active_day_info", active_day[1])
                                    ELSE Pop(ud, {"active_day_info"})]
                /\ conv' = [conv EXCEPT ![u] = "CHOOSE_DAY"]
                /\ out' = Reply("log_day_start", u,
                                IF active_day # <<>> THEN "offer_current" ELSE "offer_dates")
    /\ UNCHANGED <<users, reg, day_logs, meals, today>>

\* log_day_start without _ensure_user: the flow starts for anyone.
log_day_start_for_anyone(u) ==
    /\ conv[u] = "END"
    /\ LET active_day == get_active_day(day_logs, u)
           ud == Put(user_data[u], "current_user", users[u])
       IN  /\ user_data' = [user_data EXCEPT ![u] =
                               IF active_day # <<>>
                               THEN Put(ud, "active_day_info", active_day[1])
                               ELSE Pop(ud, {"active_day_info"})]
           /\ conv' = [conv EXCEPT ![u] = "CHOOSE_DAY"]
           /\ out' = Reply("log_day_start", u,
                           IF active_day # <<>> THEN "offer_current" ELSE "offer_dates")
    /\ UNCHANGED <<users, reg, day_logs, meals, today>>

log_day_start(u) ==
    /\ conv[u] = "END"
    /\ IF users[u] = <<>>
       THEN /\ out' = Reply("log_day_start", u, "none")
            /\ UNCHANGED <<conv, user_data>>
       ELSE LET active_day == get_active_day(day_logs, u)
                ud == Put(user_data[u], "current_user", users[u][1])
            IN  /\ user_data' = [user_data EXCEPT ![u] =
                                    IF active_day # <<>>
                                    THEN Put(ud, "active_day_info", active_day[1])
                                    ELSE Pop(ud, {"active_day_info"})]
                /\ conv' = [conv EXCEPT ![u] = "CHOOSE_DAY"]
                /\ out' = Reply("log_day_start", u,
                                IF active_day # <<>> THEN "offer_current" ELSE "offer_dates")
    /\ UNCHANGED <<users, reg, day_logs, meals, today>>

\* `out` of a text event also keeps the text received.
TextReply(op, u, reply, text) ==
    [op |-> op, user |-> u, reply |-> reply, calls |-> <<>>, text |-> text]

\* The day is selected: _set_active_log, then _prompt_meal_type.
SelectDay(event, u, selected_date) ==
    LET r == _set_active_log(day_logs, user_data[u], u, selected_date)
    IN  /\ day_logs' = r.logs
        /\ user_data' = [user_data EXCEPT ![u] = _reset_entry_context(r.ud)]
        /\ conv' = [conv EXCEPT ![u] = "CHOOSE_MEAL"]
        /\ out' = event

EndFlow(event, u) ==
    /\ conv' = [conv EXCEPT ![u] = "END"]
    /\ out' = event
    /\ UNCHANGED <<day_logs, user_data>>

log_day_choose_day(u, data) ==
    /\ conv[u] = "CHOOSE_DAY"
    /\ data = "day_today" => RoomForDay(u, today)
    /\ IF ~Has(user_data[u], "current_user")
       THEN EndFlow(Reply("log_day_choose_day", u, "session_expired"), u)
       ELSE IF data = "day_current"
       THEN IF ~Has(user_data[u], "active_day_info")
            THEN EndFlow(Reply("log_day_choose_day", u, "no_current_day"), u)
            ELSE SelectDay(Reply("log_day_choose_day", u, "day_selected"), u,
                           user_data[u]["active_day_info"].day)
       ELSE IF data = "day_today"
       THEN SelectDay(Reply("log_day_choose_day", u, "day_selected"), u, today)
       ELSE /\ out' = Reply("log_day_choose_day", u, "ask_date")
            /\ UNCHANGED <<conv, day_logs, user_data>>
    /\ UNCHANGED <<users, reg, meals, today>>

\* The text of date d in the format %Y-%m-%d: the year and month as one token,
\* then the day's digit.
date_text(d) == <<"date", CHOOSE c \in DOMAIN DigitValue : DigitValue[c] = d>>

\* datetime.strptime(text, "%Y-%m-%d") does not raise.
IsDateText(text) == Len(text) = 2 /\ text[1] = "date" /\ text[2] \in DOMAIN DigitValue

\* datetime.strptime(text, "%Y-%m-%d").date()
strptime(text) == DigitValue[text[2]]

\* Typed texts that are no date.
InvalidDateTexts == {<<"tomorrow">>}

TypedTexts(dates) == {date_text(d) : d \in dates} \cup InvalidDateTexts

log_day_receive_date(u, typed) ==
    /\ reg[u] = "END"
    /\ conv[u] = "CHOOSE_DAY"
    /\ LET text == strip(typed)
       IN  /\ IsDateText(text) => RoomForDay(u, strptime(text))
           /\ IF ~IsDateText(text)
              THEN /\ out' = TextReply("log_day_receive_date", u, "bad_format", typed)
                   /\ UNCHANGED <<conv, day_logs, user_data>>
              ELSE IF ~Has(user_data[u], "current_user")
              THEN EndFlow(TextReply("log_day_receive_date", u, "session_expired", typed), u)
              ELSE SelectDay(TextReply("log_day_receive_date", u, "day_selected", typed),
                             u, strptime(text))
    /\ UNCHANGED <<users, reg, meals, today>>

\* query.data.replace(prefix, ""): callback data is <<prefix, rest>>.
data_without_prefix(data) == data[2]

\* log_day_choose_meal asking for the description at once.
log_day_choose_meal_skips_entry_type(u, data) ==
    /\ conv[u] = "CHOOSE_MEAL"
    /\ data[1] = "meal_"
    /\ IF data_without_prefix(data) \notin MEAL_TYPES
       THEN EndFlow(Reply("log_day_choose_meal", u, "unknown_meal"), u)
       ELSE /\ user_data' = [user_data EXCEPT ![u] =
                                Put(@, "meal_type", data_without_prefix(data))]
            /\ conv' = [conv EXCEPT ![u] = "ENTER_TEXT"]
            /\ out' = Reply("log_day_choose_meal", u, "ask_entry_type")
            /\ UNCHANGED day_logs
    /\ UNCHANGED <<users, reg, meals, today>>

log_day_choose_meal(u, data) ==
    /\ conv[u] = "CHOOSE_MEAL"
    /\ data[1] = "meal_"
    /\ IF data_without_prefix(data) \notin MEAL_TYPES
       THEN EndFlow(Reply("log_day_choose_meal", u, "unknown_meal"), u)
       ELSE /\ user_data' = [user_data EXCEPT ![u] =
                                Put(@, "meal_type", data_without_prefix(data))]
            /\ conv' = [conv EXCEPT ![u] = "CHOOSE_ENTRY_TYPE"]
            /\ out' = Reply("log_day_choose_meal", u, "ask_entry_type")
            /\ UNCHANGED day_logs
    /\ UNCHANGED <<users, reg, meals, today>>

log_day_entry_type(u, data) ==
    /\ conv[u] = "CHOOSE_ENTRY_TYPE"
    /\ data[1] = "entry_"
    /\ IF data_without_prefix(data) \notin ENTRY_TYPES
       THEN EndFlow(Reply("log_day_entry_type", u, "unknown_entry_type"), u)
       ELSE /\ user_data' = [user_data EXCEPT ![u] =
                                Put(@, "entry_type", data_without_prefix(data))]
            /\ conv' = [conv EXCEPT ![u] =
                           IF data_without_prefix(data) = "text"
                           THEN "ENTER_TEXT" ELSE "ENTER_PHOTO"]
            /\ out' = Reply("log_day_entry_type", u, "ask_content")
            /\ UNCHANGED day_logs
    /\ UNCHANGED <<users, reg, meals, today>>

OracleCall(fn, answer, args) == [fn |-> fn, ok |-> answer.ok, args |-> args]

\* The state returned when the oracle fails, with every entry sent back to text.
failed_input_state_always_text(photo_bytes) == "ENTER_TEXT"

\* return LogState.ENTER_TEXT if not photo_bytes else LogState.ENTER_PHOTO
failed_input_state(photo_bytes) ==
    IF photo_bytes = NoPhoto THEN "ENTER_TEXT" ELSE "ENTER_PHOTO"

_handle_meal_input(op, u, description, photo_bytes, answer) ==
    LET call == IF photo_bytes # NoPhoto
                THEN OracleCall("analyze_meal_from_image", answer,
                                [description |-> description, image_bytes |-> photo_bytes])
                ELSE OracleCall("analyze_meal_from_text", answer,
                                [description |-> description])
    IN  IF ~answer.ok
        THEN /\ conv' = [conv EXCEPT ![u] = failed_input_state(photo_bytes)]
             /\ out' = [Reply(op, u, "oracle_failed") EXCEPT !.calls = <<call>>]
             /\ UNCHANGED user_data
        ELSE LET stashed == Put(Put(Put(Put(user_data[u],
                                "analysis", answer.analysis),
                                "user_input", description),
                                "original_description", description),
                                "corrections", <<>>)
             IN  /\ user_data' = [user_data EXCEPT ![u] =
                                     IF photo_bytes # NoPhoto
                                     THEN Put(stashed, "photo_bytes", photo_bytes)
                                     ELSE Pop(stashed, {"photo_bytes"})]
                 /\ conv' = [conv EXCEPT ![u] = "CONFIRM"]
                 /\ out' = [Reply(op, u, "analysis") EXCEPT !.calls = <<call>>]

log_day_receive_text(u, description, answer) ==
    /\ reg[u] = "END"
    /\ conv[u] = "ENTER_TEXT"
    /\ _handle_meal_input("log_day_receive_text", u, description, NoPhoto, answer)
    /\ UNCHANGED <<users, reg, day_logs, meals, today>>

\* update.message.caption or "": an absent caption is the empty text.
log_day_receive_photo(u, caption, image_bytes, answer) ==
    /\ conv[u] = "ENTER_PHOTO"
    /\ _handle_meal_input("log_day_receive_photo", u, caption, image_bytes, answer)
    /\ UNCHANGED <<users, reg, day_logs, meals, today>>

\* The keys _persist_meal reads with context.user_data[...]: a missing one raises.
PersistKeys == {"current_user", "log_date", "meal_type", "entry_type", "analysis"}

\* _persist_meal, then _prompt_meal_type.
_persist_meal(u) ==
    LET ud == user_data[u]
        selected == IF Has(ud, "day_log_id")
                    THEN [logs |-> day_logs, id |-> ud["day_log_id"], ud |-> ud]
                    ELSE _set_active_log(day_logs, ud, u, ud["log_date"])
        r == add_meal_entry(selected.logs, meals, selected.id, ud["meal_type"],
                            ud["entry_type"], Get(ud, "user_input", <<>>),
                            to_dict(ud["analysis"]), EmptyDict)
    IN  /\ day_logs' = r.logs
        /\ meals' = r.meals
        /\ user_data' = [user_data EXCEPT ![u] = _reset_entry_context(selected.ud)]
        /\ conv' = [conv EXCEPT ![u] = "CHOOSE_MEAL"]
        /\ out' = [Reply("log_day_confirm", u, "saved") EXCEPT !.calls = <<>>]

\* log_day_confirm storing the meal on the edit button too.
log_day_confirm_stores_on_edit(u, choice) ==
    /\ conv[u] = "CONFIRM"
    /\ IF choice = "confirm_yes"
       THEN IF PersistKeys \subseteq DOMAIN user_data[u]
            THEN _persist_meal(u)
            ELSE /\ out' = Reply("log_day_confirm", u, "error")
                 /\ UNCHANGED <<conv, user_data, day_logs, meals>>
       ELSE /\ conv' = [conv EXCEPT ![u] = "CORRECTION_TEXT"]
            /\ out' = Reply("log_day_confirm", u, "ask_correction")
            /\ meals' = Append(meals, MealRow(1, "dinner", "text", <<>>, EmptyDict, EmptyDict))
            /\ UNCHANGED <<user_data, day_logs>>
    /\ UNCHANGED <<users, reg, today>>

log_day_confirm(u, choice) ==
    /\ conv[u] = "CONFIRM"
    /\ IF choice = "confirm_yes"
       THEN IF PersistKeys \subseteq DOMAIN user_data[u]
            THEN _persist_meal(u)
            ELSE /\ out' = Reply("log_day_confirm", u, "error")
                 /\ UNCHANGED <<conv, user_data, day_logs, meals>>
       ELSE /\ conv' = [conv EXCEPT ![u] = "CORRECTION_TEXT"]
            /\ out' = Reply("log_day_confirm", u, "ask_correction")
            /\ UNCHANGED <<user_data, day_logs, meals>>
    /\ UNCHANGED <<users, reg, today>>

\* The user_input kept after a correction: the description and, under the
\* heading (a Russian word in the source), the corrections.
combined_input(original_description, corrections, text) ==
    LET parts == (IF strip(original_description) # <<>>
                  THEN <<strip(original_description)>> ELSE <<>>)
                 \o (IF corrections # <<>>
                     THEN <<(<<"Corrections:\n">> \o corrections)>> ELSE <<>>)
    IN  IF join("\n\n", parts) # <<>> THEN join("\n\n", parts) ELSE text

\* log_day_correction sending only the newest correction to the oracle.
proposed_corrections_last_only(prior_corrections, text) == <<text>>

\* prior_corrections + [text]
proposed_corrections(prior_corrections, text) == Append(prior_corrections, text)

\* The state returned when the refinement fails, were it the confirmation step.
correction_failed_state_confirm == "CONFIRM"

\* return LogState.CORRECTION_TEXT (in the except branch)
correction_failed_state == "CORRECTION_TEXT"

\* `out` also keeps the text received.
log_day_correction(u, text, answer) ==
    /\ reg[u] = "END"
    /\ conv[u] = "CORRECTION_TEXT"
    /\ Len(Get(user_data[u], "corrections", <<>>)) < MaxCorrections
    /\ LET ud == user_data[u]
           original_description == Get(ud, "original_description", <<>>)
           proposed == proposed_corrections(Get(ud, "corrections", <<>>), text)
           corrections == corrections_text(proposed)
           call == IF Has(ud, "analysis")
                   THEN OracleCall("refine_meal_analysis", answer,
                            [corrections |-> IF corrections # <<>> THEN corrections ELSE text,
                             previous_analysis |-> ud["analysis"],
                             original_description |-> original_description,
                             image_bytes |-> Get(ud, "photo_bytes", NoPhoto)])
                   ELSE OracleCall("analyze_meal_from_text", answer, [description |-> text])
       IN  IF ~answer.ok
           THEN /\ out' = [op |-> "log_day_correction", user |-> u,
                            reply |-> "oracle_failed", calls |-> <<call>>, text |-> text]
                /\ conv' = [conv EXCEPT ![u] = correction_failed_state]
                /\ UNCHANGED user_data
           ELSE /\ user_data' = [user_data EXCEPT ![u] =
                       Put(Put(Put(ud, "corrections", proposed),
                                   "analysis", answer.analysis),
                                   "user_input",
                                   combined_input(original_description, corrections, text))]
                /\ conv' = [conv EXCEPT ![u] = "CONFIRM"]
                /\ out' = [op |-> "log_day_correction", user |-> u,
                            reply |-> "analysis", calls |-> <<call>>, text |-> text]
    /\ UNCHANGED <<users, reg, day_logs, meals, today>>

\* _cancel_log without context.user_data.clear().
_cancel_log_keeps_scratch(u) ==
    /\ conv[u] # "END"
    /\ conv' = [conv EXCEPT ![u] = "END"]
    /\ out' = [op |-> "_cancel_log", user |-> u, reply |-> "cancelled", calls |-> <<>>,
                state |-> conv[u]]
    /\ UNCHANGED <<users, reg, day_logs, meals, user_data, today>>

\* The fallback of the meal-logging conversation: /cancel in any of its states.
\* `out` also keeps the state the conversation was in.
\* _cancel_log closing the day the flow was on.
_cancel_log_closes_day(u) ==
    /\ conv[u] # "END"
    /\ user_data' = [user_data EXCEPT ![u] = EmptyDict]
    /\ conv' = [conv EXCEPT ![u] = "END"]
    /\ day_logs' = [i \in DOMAIN day_logs |->
                      IF day_logs[i].telegram_id = u
                      THEN [day_logs[i] EXCEPT !.status = "closed"]
                      ELSE day_logs[i]]
    /\ out' = [op |-> "_cancel_log", user |-> u, reply |-> "cancelled", calls |-> <<>>,
                state |-> conv[u]]
    /\ UNCHANGED <<users, reg, meals, today>>

_cancel_log(u) ==
    /\ conv[u] # "END"
    /\ user_data' = [user_data EXCEPT ![u] = EmptyDict]
    /\ conv' = [conv EXCEPT ![u] = "END"]
    /\ out' = [op |-> "_cancel_log", user |-> u, reply |-> "cancelled", calls |-> <<>>,
                state |-> conv[u]]
    /\ UNCHANGED <<users, reg, day_logs, meals, today>>

\* The answer of request_day_summary: it fails or returns the recommendations.
SummaryAnswers == {OracleFailed, [ok |-> TRUE]}

\* _summarize_day returning True although request_day_summary raised.
_summarize_day_swallows_failure(summary, answer) == summary # <<>>

\* Whether _summarize_day returns True: there is a summary and the oracle answered.
_summarize_day(summary, answer) == summary # <<>> /\ answer.ok

\* finish_day without the three pops that follow close_day.
finish_day_keeps_session(u, answer) ==
    LET active_day == get_active_day(day_logs, u)
        selected_date == active_day[1].day
        summary == get_day_summary(day_logs, meals, u, selected_date)
        user == users[u][1]
        target == [calories |-> user.metrics.calorie_target,
                   protein |-> user.metrics.protein_target_g,
                   fat |-> user.metrics.fat_target_g,
                   carbs |-> user.metrics.carb_target_g]
        call == OracleCall("request_day_summary", answer,
                           [target |-> target, actual |-> summary[1].totals])
        finishing(reply, calls) ==
            [op |-> "finish_day", user |-> u, reply |-> reply, calls |-> calls,
             day |-> selected_date]
    IN  /\ IF users[u] = <<>>
           THEN /\ out' = Reply("finish_day", u, "none")
                /\ UNCHANGED <<day_logs, user_data>>
           ELSE IF active_day = <<>>
           THEN /\ out' = Reply("finish_day", u, "no_open_day")
                /\ UNCHANGED <<day_logs, user_data>>
           ELSE IF ~_summarize_day(summary, answer)
           THEN /\ out' = IF summary = <<>>
                           THEN finishing("day_empty", <<>>)
                           ELSE finishing("oracle_failed", <<call>>)
                /\ UNCHANGED <<day_logs, user_data>>
           ELSE /\ day_logs' = close_day(day_logs, u, selected_date)
                /\ UNCHANGED user_data
                /\ out' = finishing("day_closed", <<call>>)
        /\ UNCHANGED <<users, reg, meals, conv, today>>

\* finish_day with _summarize_day.  /finish_day is a command, so no state of the
\* conversations takes it and the global handler runs whatever the flow's state.
finish_day(u, answer) ==
    LET active_day == get_active_day(day_logs, u)
        selected_date == active_day[1].day
        summary == get_day_summary(day_logs, meals, u, selected_date)
        user == users[u][1]
        target == [calories |-> user.metrics.calorie_target,
                   protein |-> user.metrics.protein_target_g,
                   fat |-> user.metrics.fat_target_g,
                   carbs |-> user.metrics.carb_target_g]
        call == OracleCall("request_day_summary", answer,
                           [target |-> target, actual |-> summary[1].totals])
        finishing(reply, calls) ==
            [op |-> "finish_day", user |-> u, reply |-> reply, calls |-> calls,
             day |-> selected_date]
    IN  /\ IF users[u] = <<>>
           THEN /\ out' = Reply("finish_day", u, "none")
                /\ UNCHANGED <<day_logs, user_data>>
           ELSE IF active_day = <<>>
           THEN /\ out' = Reply("finish_day", u, "no_open_day")
                /\ UNCHANGED <<day_logs, user_data>>
           ELSE IF ~_summarize_day(summary, answer)
           THEN /\ out' = IF summary = <<>>
                           THEN finishing("day_empty", <<>>)
                           ELSE finishing("oracle_failed", <<call>>)
                /\ UNCHANGED <<day_logs, user_data>>
           ELSE /\ day_logs' = close_day(day_logs, u, selected_date)
                /\ user_data' = [user_data EXCEPT ![u] =
                                    Pop(@, {"log_date", "day_log_id", "active_day_info"})]
                /\ out' = finishing("day_closed", <<call>>)
        /\ UNCHANGED <<users, reg, meals, conv, today>>

\* /stats and the menu text: the keyboard with the two periods.
stats(u) ==
    /\ out' = IF users[u] = <<>>
              THEN Reply("stats", u, "none")
              ELSE Reply("stats", u, "ask_period")
    /\ UNCHANGED <<users, day_logs, meals, reg, conv, user_data, today>>

\* The callback data of that keyboard.
StatsButtons == {"stats_week", "stats_month"}

\* The periods counted from a day earlier: timedelta(days=7) and timedelta(days=30).
period_days_one_more(data) == IF data = "stats_week" THEN 7 ELSE 30

\* timedelta(days=6) for stats_week, timedelta(days=29) for any other data.
period_days(data) == IF data = "stats_week" THEN 6 ELSE 29

\* sum(...) of a list of numbers.
RECURSIVE sum(_)
sum(values) == IF values = <<>> THEN 0 ELSE Head(values) + sum(Tail(values))

\* The statistics of a period: `out` keeps the range asked for, the rows the
\* query returned and the grand totals written in the message.
stats_callback(u, data) ==
    LET end == today
        start == end - period_days(data)
        rows == iter_period_totals(day_logs, u, start, end)
        column(k) == [i \in DOMAIN rows |-> rows[i]["total_" \o k]]
    IN  /\ out' = IF users[u] = <<>>
                  THEN Reply("stats_callback", u, "user_not_found")
                  ELSE IF rows = <<>>
                  THEN [op |-> "stats_callback", user |-> u, reply |-> "no_records",
                        calls |-> <<>>, data |-> data, start |-> start, end |-> end,
                        rows |-> rows]
                  ELSE [op |-> "stats_callback", user |-> u, reply |-> "statistics",
                        calls |-> <<>>, data |-> data, start |-> start, end |-> end,
                        rows |-> rows, totals |-> [k \in Macros |-> sum(column(k))]]
        /\ UNCHANGED <<users, day_logs, meals, reg, conv, user_data, today>>

\* /profile answered with the start of a new registration, as the welcome
\* message words it ("update the profile").
profile_updates_profile(u) ==
    /\ IF users[u] = <<>>
       THEN /\ out' = Reply("profile", u, "none")
            /\ UNCHANGED <<users, reg>>
       ELSE /\ out' = Reply("profile", u, "ask_age")
            /\ users' = [users EXCEPT ![u] = <<>>]
            /\ reg' = [reg EXCEPT ![u] = "AGE"]
    /\ UNCHANGED <<day_logs, meals, conv, user_data, today>>

\* /profile and the menu text: the stored profile is shown.
profile(u) ==
    /\ out' = IF users[u] = <<>>
              THEN Reply("profile", u, "none")
              ELSE [op |-> "profile", user |-> u, reply |-> "profile", calls |-> <<>>,
                    profile |-> users[u][1]]
    /\ UNCHANGED <<users, day_logs, meals, reg, conv, user_data, today>>

(***************************************************************************)
(* bot.py: the registration conversation.  It is registered first, so in   *)
(* one of its states it takes every text that is not a command.  A typed   *)
(* text is a sequence of one-character tokens; "M", "m", "F", "f" stand    *)
(* for the Cyrillic letters of the sex keyboard, the option labels for     *)
(* their Russian wording.                                                  *)
(***************************************************************************)
IsDigits(t) == \A i \in DOMAIN t : t[i] \in DOMAIN DigitValue

\* The number a sequence of digits writes.
RECURSIVE digits_value(_)
digits_value(t) ==
    IF t = <<>> THEN 0 ELSE 10 * digits_value(SubSeq(t, 1, Len(t) - 1)) + DigitValue[t[Len(t)]]

\* The float the digits after the decimal point write.
RECURSIVE fraction_value(_, _)
fraction_value(t, place) ==
    IF t = <<>> THEN 0
    ELSE DigitValue[Head(t)] * (Unit \div place) + fraction_value(Tail(t), place * 10)

Unsigned(t) == IF t # <<>> /\ Head(t) \in {"+", "-"} THEN Tail(t) ELSE t

Signed(t, value) == IF t # <<>> /\ Head(t) = "-" THEN 0 - value ELSE value

\* int(text): <<>> is ValueError, <<n>> the integer.
int(text) ==
    LET t == strip(text)
    IN  IF Unsigned(t) # <<>> /\ IsDigits(Unsigned(t))
        THEN <<Signed(t, digits_value(Unsigned(t)))>>
        ELSE <<>>

\* text.replace(old, new)
replace(text, old, new) == [i \in DOMAIN text |-> IF text[i] = old THEN new ELSE text[i]]

\* float(text) of plain decimal notation with at most three decimals (the texts
\* of the model have no more): <<>> is ValueError, <<x>> the float.
float(text) ==
    LET t == Unsigned(strip(text))
        points == {i \in DOMAIN t : t[i] = "."}
        point == IF points = {} THEN Len(t) + 1 ELSE CHOOSE i \in points : TRUE
        whole == SubSeq(t, 1, point - 1)
        fraction == SubSeq(t, point + 1, Len(t))
    IN  IF /\ Cardinality(points) <= 1
           /\ IsDigits(whole) /\ IsDigits(fraction)
           /\ Len(whole) + Len(fraction) > 0
           /\ Len(fraction) <= 3
        THEN <<Signed(strip(text), as_float(digits_value(whole)) + fraction_value(fraction, 10))>>
        ELSE <<>>

\* str.lower()
lower(text) ==
    [i \in DOMAIN text |-> IF text[i] = "M" THEN "m" ELSE IF text[i] = "F" THEN "f" ELSE text[i]]

ACTIVITY_OPTIONS ==
    [sedentary |-> <<"Minimal">>, light |-> <<"Light">>, moderate |-> <<"Medium">>,
     high |-> <<"High">>, very_high |-> <<"Very high">>]

GOAL_OPTIONS == [lose |-> <<"Losing">>, maintain |-> <<"Keeping">>, gain |-> <<"Gaining">>]

\* for key, label in options.items(): if selected == label  (<<>>: the else branch)
option_key(options, selected) ==
    IF \E key \in DOMAIN options : options[key] = selected
    THEN <<CHOOSE key \in DOMAIN options : options[key] = selected>>
    ELSE <<>>

\* start without the look-up of the stored profile.
start_always_registers(u) ==
    /\ reg' = [reg EXCEPT ![u] = "AGE"]
    /\ out' = Reply("start", u, "ask_age")
    /\ UNCHANGED <<users, day_logs, meals, conv, user_data, today>>

\* /start is an entry point (allow_reentry) and the fallback of every state.
start(u) ==
    /\ IF users[u] # <<>>
       THEN /\ reg' = [reg EXCEPT ![u] = "END"]
            /\ out' = Reply("start", u, "welcome_back")
       ELSE /\ reg' = [reg EXCEPT ![u] = "AGE"]
            /\ out' = Reply("start", u, "ask_age")
    /\ UNCHANGED <<users, day_logs, meals, conv, user_data, today>>

\* The text is rejected: the same state asks again.
Reprompt(op, u, reply, text) ==
    /\ out' = TextReply(op, u, reply, text)
    /\ UNCHANGED <<users, reg, user_data>>

\* Answer returning the last state whatever the step.
Answer_jumps_to_goal(op, u, key, value, next_state, reply, text) ==
    IF ~Has(user_data[u], "registration")
    THEN Reprompt(op, u, "error", text)
    ELSE /\ user_data' = [user_data EXCEPT ![u] =
                             Put(@, "registration", Put(@["registration"], key, value))]
         /\ reg' = [reg EXCEPT ![u] = "GOAL"]
         /\ out' = TextReply(op, u, reply, text)
         /\ UNCHANGED users

\* context.user_data["registration"][key] = value, then the next state; without
\* the registration dict the assignment raises.
Answer(op, u, key, value, next_state, reply, text) ==
    IF ~Has(user_data[u], "registration")
    THEN Reprompt(op, u, "error", text)
    ELSE /\ user_data' = [user_data EXCEPT ![u] =
                             Put(@, "registration", Put(@["registration"], key, value))]
         /\ reg' = [reg EXCEPT ![u] = next_state]
         /\ out' = TextReply(op, u, reply, text)
         /\ UNCHANGED users

\* The range test of the age with its upper limit forgotten.
age_in_range_no_upper(age) == 0 < age

\* 0 < age <= 120
age_in_range(age) == 0 < age /\ age <= 120

\* The registration dict extended in place instead of started anew.
new_registration_keeps_old(ud, age) == Put(Get(ud, "registration", EmptyDict), "age", age)

\* context.user_data["registration"] = {"age": age}
new_registration(ud, age) == Put(EmptyDict, "age", age)

registration_age(u, text) ==
    /\ reg[u] = "AGE"
    /\ LET age == int(text)
       IN  IF age = <<>>
           THEN Reprompt("registration_age", u, "bad_number", text)
           ELSE IF ~age_in_range(age[1])
           THEN Reprompt("registration_age", u, "out_of_range", text)
           ELSE /\ user_data' = [user_data EXCEPT ![u] =
                                    Put(@, "registration", new_registration(@, age[1]))]
                /\ reg' = [reg EXCEPT ![u] = "SEX"]
                /\ out' = TextReply("registration_age", u, "ask_sex", text)
                /\ UNCHANGED users
    /\ UNCHANGED <<day_logs, meals, conv, today>>

registration_sex(u, text) ==
    /\ reg[u] = "SEX"
    /\ LET sex_value == lower(strip(text))
       IN  IF sex_value \notin {<<"m">>, <<"f">>}
           THEN Reprompt("registration_sex", u, "not_an_option", text)
           ELSE Answer("registration_sex", u, "sex",
                       IF sex_value = <<"m">> THEN "male" ELSE "female",
                       "HEIGHT", "ask_height", text)
    /\ UNCHANGED <<day_logs, meals, conv, today>>

registration_height(u, text) ==
    /\ reg[u] = "HEIGHT"
    /\ LET height == float(replace(text, ",", "."))
       IN  IF height = <<>>
           THEN Reprompt("registration_height", u, "bad_number", text)
           ELSE IF ~(as_float(50) <= height[1] /\ height[1] <= as_float(250))
           THEN Reprompt("registration_height", u, "out_of_range", text)
           ELSE Answer("registration_height", u, "height", height[1],
                       "WEIGHT", "ask_weight", text)
    /\ UNCHANGED <<day_logs, meals, conv, today>>

registration_weight(u, text) ==
    /\ reg[u] = "WEIGHT"
    /\ LET weight == float(replace(text, ",", "."))
       IN  IF weight = <<>>
           THEN Reprompt("registration_weight", u, "bad_number", text)
           ELSE IF ~(as_float(30) <= weight[1] /\ weight[1] <= as_float(400))
           THEN Reprompt("registration_weight", u, "out_of_range", text)
           ELSE Answer("registration_weight", u, "weight", weight[1],
                       "ACTIVITY", "ask_activity", text)
    /\ UNCHANGED <<day_logs, meals, conv, today>>

registration_activity(u, text) ==
    /\ reg[u] = "ACTIVITY"
    /\ LET key == option_key(ACTIVITY_OPTIONS, strip(text))
       IN  IF key = <<>>
           THEN Reprompt("registration_activity", u, "not_an_option", text)
           ELSE Answer("registration_activity", u, "activity", key[1],
                       "GOAL", "ask_goal", text)
    /\ UNCHANGED <<day_logs, meals, conv, today>>

\* The keys build_metrics and User read from the popped dict: a missing one raises.
ProfileKeys == {"age", "sex", "height", "weight", "activity", "goal"}

registration_goal(u, text) ==
    /\ reg[u] = "GOAL"
    /\ LET key == option_key(GOAL_OPTIONS, strip(text))
           ud == user_data[u]
       IN  IF key = <<>>
           THEN Reprompt("registration_goal", u, "not_an_option", text)
           ELSE IF ~Has(ud, "registration")
           THEN Reprompt("registration_goal", u, "error", text)
           ELSE LET data == Put(ud["registration"], "goal", key[1])
                IN  /\ user_data' = [user_data EXCEPT ![u] = Pop(@, {"registration"})]
                    /\ IF ~(ProfileKeys \subseteq DOMAIN data)
                       THEN /\ out' = TextReply("registration_goal", u, "error", text)
                            /\ UNCHANGED <<users, reg>>
                       ELSE /\ users' = upsert_user(users,
                                  User(u, data["age"], data["sex"], data["height"],
                                       data["weight"], data["activity"], data["goal"],
                                       build_metrics(data["weight"], data["height"],
                                                     data["age"], data["sex"],
                                                     data["activity"], data["goal"])))
                            /\ reg' = [reg EXCEPT ![u] = "END"]
                            /\ out' = TextReply("registration_goal", u, "profile_ready", text)
    /\ UNCHANGED <<day_logs, meals, conv, today>>

\* The pattern of the callback queries each state of the meal-logging
\* conversation takes; the other states and the entry points take none.
StatePattern ==
    [CHOOSE_DAY |-> "day_", CHOOSE_MEAL |-> "meal_", CHOOSE_ENTRY_TYPE |-> "entry_",
     CONFIRM |-> "confirm_"]

FlowPatterns == {"day_", "meal_", "entry_", "confirm_"}

\* A press of a flow button that no handler takes: the conversation is in no
\* state with its pattern, and the only other callback handler wants ^stats_.
\* The update is dropped: nothing is answered and nothing is sent.
unhandled_callback(u, pattern) ==
    /\ ~(conv[u] \in DOMAIN StatePattern /\ StatePattern[conv[u]] = pattern)
    /\ out' = [op |-> "unhandled_callback", user |-> u, reply |-> "none", calls |-> <<>>,
               pattern |-> pattern]
    /\ UNCHANGED <<users, day_logs, meals, reg, conv, user_data, today>>

\* /cancel outside the meal-logging conversation: the command is no entry
\* point, the only fallback of the registration conversation is /start and its
\* states take texts that are no commands, and no other handler takes /cancel.
\* The update is dropped.
unhandled_cancel(u) ==
    /\ conv[u] = "END"
    /\ out' = [op |-> "unhandled_cancel", user |-> u, reply |-> "none", calls |-> <<>>]
    /\ UNCHANGED <<users, day_logs, meals, reg, conv, user_data, today>>

\* The buttons and texts the front end delivers.
DayButtons == {"day_current", "day_today", "day_other"}

MealButtons == {<<"meal_", "dinner">>}

EntryButtons == {<<"entry_", "text">>, <<"entry_", "image">>}

ConfirmButtons == {"confirm_yes", "confirm_edit"}

\* The meal-logging conversation of user u; dates are the dates typed and texts
\* the corrections typed.
Logging(u, dates, texts) ==
    \/ log_day_start(u)
    \/ \E data \in DayButtons : log_day_choose_day(u, data)
    \/ \E text \in TypedTexts(dates) : log_day_receive_date(u, text)
    \/ \E data \in MealButtons : log_day_choose_meal(u, data)
    \/ \E data \in EntryButtons : log_day_entry_type(u, data)
    \/ \E d \in Descriptions, answer \in OracleAnswers : log_day_receive_text(u, d, answer)
    \/ \E c \in Captions, b \in Photos, answer \in OracleAnswers :
            log_day_receive_photo(u, c, b, answer)
    \/ \E choice \in ConfirmButtons :
            /\ choice = "confirm_yes" => Len(meals) < MaxConfirmed
            /\ log_day_confirm(u, choice)
    \/ \E text \in texts, answer \in OracleAnswers : log_day_correction(u, text, answer)
    \/ _cancel_log(u)

\* The user whose chat is followed.
Chatting == {1}

\* Meal logging and day finalization; every correction typed is the same text.
Next ==
    \E u \in Chatting :
        \/ Logging(u, Dates, {<<"less">>})
        \/ \E answer \in SummaryAnswers : finish_day(u, answer)

Spec == Init /\ [][Next]_vars

\* The meal-logging conversation alone, on today's date, with different
\* corrections typed.
NextLogging == \E u \in Chatting : Logging(u, {today}, CorrectionTexts)

SpecLogging == Init /\ [][NextLogging]_vars

\* The texts typed during registration: answers the handlers accept and
\* answers they reject.
ValidAgeTexts == {<<"3", "0">>, <<"4", "5">>}

InvalidAgeTexts == {<<"0">>, <<"1", "2", "1">>, <<"3", "0", ".", "5">>, <<"a">>}

ValidSexTexts == {<<"M">>, <<"f", " ">>}

InvalidSexTexts == {<<"x">>}

ValidHeightTexts == {<<"1", "7", "5">>}

InvalidHeightTexts == {<<"4", "9">>, <<"2", "5", "1">>, <<"x">>}

ValidWeightTexts == {<<"6", "8", ",", "5">>}

InvalidWeightTexts == {<<"2", "9">>, <<"4", "0", "1">>, <<"x">>}

ValidActivityTexts == {ACTIVITY_OPTIONS["moderate"]}

InvalidActivityTexts == {<<"moderate">>}

ValidGoalTexts == {GOAL_OPTIONS["lose"], GOAL_OPTIONS["gain"]}

InvalidGoalTexts == {<<"lose">>}

\* The registration conversation of user u.
Registration(u) ==
    \/ start(u)
    \/ \E text \in ValidAgeTexts \cup InvalidAgeTexts : registration_age(u, text)
    \/ \E text \in ValidSexTexts \cup InvalidSexTexts : registration_sex(u, text)
    \/ \E text \in ValidHeightTexts \cup InvalidHeightTexts : registration_height(u, text)
    \/ \E text \in ValidWeightTexts \cup InvalidWeightTexts : registration_weight(u, text)
    \/ \E text \in ValidActivityTexts \cup InvalidActivityTexts : registration_activity(u, text)
    \/ \E text \in ValidGoalTexts \cup InvalidGoalTexts : registration_goal(u, text)

\* The first run: the database is empty.
InitEmpty ==
    /\ users = [u \in Users |-> <<>>]
    /\ day_logs = <<>>
    /\ meals = <<>>
    /\ reg = [u \in Users |-> "END"]
    /\ conv = [u \in Users |-> "END"]
    /\ user_data = [u \in Users |-> EmptyDict]
    /\ today = 1
    /\ out = [op |-> "init"]

\* Registration, then the choice of the day, with flow buttons pressed at any time.
NextRegistration ==
    \E u \in Chatting :
        \/ Registration(u)
        \/ log_day_start(u)
        \/ \E data \in DayButtons : log_day_choose_day(u, data)
        \/ \E text \in TypedTexts(Dates) : log_day_receive_date(u, text)
        \/ _cancel_log(u)
        \/ unhandled_cancel(u)
        \/ \E pattern \in FlowPatterns : unhandled_callback(u, pattern)

SpecRegistration == InitEmpty /\ [][NextRegistration]_vars

\* The users who never registered.
Visitors == Users \ Chatting

\* A later run: the user followed has a stored profile, the visitor has none.
InitDiary ==
    /\ users = [u \in Users |-> IF u \in Visitors THEN <<>> ELSE <<StoredUser(u)>>]
    /\ day_logs = <<>>
    /\ meals = <<>>
    /\ reg = [u \in Users |-> "END"]
    /\ conv = [u \in Users |-> "END"]
    /\ user_data = [u \in Users |-> EmptyDict]
    /\ today = 1
    /\ out = [op |-> "init"]

\* Days chosen, meals described in text and confirmed, flows cancelled, days
\* finalized; the visitor sends /finish_day too.
NextDiary ==
    \/ \E u \in Chatting :
        \/ log_day_start(u)
        \/ \E data \in DayButtons : log_day_choose_day(u, data)
        \/ \E text \in TypedTexts(Dates) : log_day_receive_date(u, text)
        \/ \E data \in MealButtons : log_day_choose_meal(u, data)
        \/ log_day_entry_type(u, <<"entry_", "text">>)
        \/ \E d \in Descriptions, answer \in OracleAnswers : log_day_receive_text(u, d, answer)
        \/ Len(meals) < MaxDiaryMeals /\ log_day_confirm(u, "confirm_yes")
        \/ _cancel_log(u)
    \/ \E u \in Users, answer \in SummaryAnswers : finish_day(u, answer)

SpecDiary == InitDiary /\ [][NextDiary]_vars

\* The day the statistics are asked on, and the dates that have rows: the day
\* before each period, the first day of each period, today and tomorrow.
StatsToday == 36

StatsDates ==
    {StatsToday - 30, StatsToday - 29, StatsToday - 7, StatsToday - 6, StatsToday,
     StatsToday + 1}

\* The dates the period queries are made with.
QueryDates == {StatsToday - 29, StatsToday - 6, StatsToday}

InitStats ==
    /\ users = [u \in Users |-> <<StoredUser(u)>>]
    /\ day_logs = <<>>
    /\ meals = <<>>
    /\ reg = [u \in Users |-> "END"]
    /\ conv = [u \in Users |-> "END"]
    /\ user_data = [u \in Users |-> EmptyDict]
    /\ today = StatsToday
    /\ out = [op |-> "init"]

\* Rows made on the dates for the user followed and on today for the other
\* user, meals added to them, and the queries of the statistics.
NextStats ==
    \/ \E u \in Chatting, d \in StatsDates : CallEnsureDayLog(u, d)
    \/ \E u \in Users \ Chatting : CallEnsureDayLog(u, StatsToday)
    \/ \E id \in DOMAIN day_logs :
            /\ Len(meals) < MaxStatsMeals
            /\ CallAddMealEntry(id, "breakfast", "text", FirstPayload, EmptyDict)
    \/ \E u \in Chatting, first \in QueryDates, last \in QueryDates :
            CallIterPeriodTotals(u, first, last)
    \/ \E u \in Chatting : stats(u)
    \/ \E u \in Chatting, data \in StatsButtons : stats_callback(u, data)

SpecStats == InitStats /\ [][NextStats]_vars

\* From the first /start on: the registration, then meals logged on the day
\* of a button (no valid date is typed), days finalized, statistics and the profile asked for, flows cancelled.
\* The visitor sends the commands of the menu without a profile.
NextLifetime ==
    \/ \E u \in Chatting :
        \/ Registration(u)
        \/ Logging(u, {}, {<<"less">>})
        \/ unhandled_cancel(u)
    \/ \E u \in Users :
        \/ \E answer \in SummaryAnswers : finish_day(u, answer)
        \/ stats(u)
        \/ \E data \in StatsButtons : stats_callback(u, data)
        \/ profile(u)
    \/ \E u \in Visitors : log_day_start(u)

\* The first run on the day the statistics reach back from.
InitLifetime ==
    /\ users = [u \in Users |-> <<>>]
    /\ day_logs = <<>>
    /\ meals = <<>>
    /\ reg = [u \in Users |-> "END"]
    /\ conv = [u \in Users |-> "END"]
    /\ user_data = [u \in Users |-> EmptyDict]
    /\ today = StatsToday
    /\ out = [op |-> "init"]

SpecLifetime == InitLifetime /\ [][NextLifetime]_vars

\* The meals the two users store between them.
MaxSharedMeals == 2

\* Two users with stored profiles, each in a conversation of their own: days
\* chosen, meals described in text and confirmed, flows cancelled, days
\* finalized.
NextTwoUsers ==
    \E u \in Users :
        \/ log_day_start(u)
        \/ \E data \in DayButtons : log_day_choose_day(u, data)
        \/ \E text \in TypedTexts({today}) : log_day_receive_date(u, text)
        \/ \E data \in MealButtons : log_day_choose_meal(u, data)
        \/ log_day_entry_type(u, <<"entry_", "text">>)
        \/ \E d \in Descriptions :
                log_day_receive_text(u, d, [ok |-> TRUE, analysis |-> MealAnalysis(100, 10, 5, 20)])
        \/ Len(meals) < MaxSharedMeals /\ log_day_confirm(u, "confirm_yes")
        \/ _cancel_log(u)
        \/ \E answer \in SummaryAnswers : finish_day(u, answer)

SpecTwoUsers == Init /\ [][NextTwoUsers]_vars

\* The arguments the functions of calculations.py are called with: the ends of
\* the ranges the registration accepts and values inside them, and a sex that
\* is none of the two.
Weights == {as_float(30), as_float(68) + Unit \div 2, as_float(70), as_float(400)}

Heights == {as_float(50), as_float(175), as_float(250)}

Ages == {1, 30, 120}

Sexes == SexValues \cup {"other"}

CallCalculateBmr(weight, height, age, sex) ==
    /\ out' = [op |-> "calculate_bmr", weight |-> weight, height |-> height, age |-> age,
               sex |-> sex, result |-> calculate_bmr(weight, height, age, sex)]
    /\ UNCHANGED <<day_logs, meals, session_vars>>

\* Calorie targets from below zero (a light, short and old woman has a negative
\* bmr) to well above what protein and fat take.
CalorieTargets == {0 - as_float(100), 0, as_float(1200), as_float(2500), as_float(6000)}

Goals == DOMAIN PROTEIN_TARGETS

CallCalculateMacros(weight, calorie_target, goal) ==
    /\ out' = [op |-> "calculate_macros", weight |-> weight,
               calorie_target |-> calorie_target, goal |-> goal,
               result |-> calculate_macros(weight, calorie_target, goal)]
    /\ UNCHANGED <<day_logs, meals, session_vars>>

\* calculations.py called directly.
NextCalculations ==
    \/ \E weight \in Weights, height \in Heights, age \in Ages, sex \in Sexes :
            CallCalculateBmr(weight, height, age, sex)
    \/ \E weight \in Weights, calorie_target \in CalorieTargets, goal \in Goals :
            CallCalculateMacros(weight, calorie_target, goal)

SpecCalculations == Init /\ [][NextCalculations]_vars

(***************************************************************************)
(* llm.py: MealAnalysis.from_dict on the payload json.loads returns.  A    *)
(* JSON value is a record with one field that names its Python type; a     *)
(* number is a float in units; a payload is a dict from keys to values.    *)
(***************************************************************************)
JNull == [null |-> TRUE]

JBool(b) == [bool |-> b]

JNumber(n) == [number |-> n]

JString(t) == [string |-> t]

JArray(s) == [array |-> s]

JObject(d) == [object |-> d]

\* isinstance(value, dict), isinstance(value, list)
is_dict(value) == DOMAIN value = {"object"}

is_list(value) == DOMAIN value = {"array"}

\* The truth value Python gives a value (`if part`, `value or 0`).
truthy(value) ==
    CASE DOMAIN value = {"null"} -> FALSE
      [] DOMAIN value = {"bool"} -> value.bool
      [] DOMAIN value = {"number"} -> value.number # 0
      [] DOMAIN value = {"string"} -> value.string # <<>>
      [] DOMAIN value = {"array"} -> value.array # <<>>
      [] DOMAIN value = {"object"} -> DOMAIN value.object # {}

\* str(value) of the values notes are made of in the model: a string is
\* itself, None and the booleans are their names.
str(value) ==
    CASE DOMAIN value = {"string"} -> value.string
      [] DOMAIN value = {"null"} -> <<"None">>
      [] DOMAIN value = {"bool"} -> IF value.bool THEN <<"True">> ELSE <<"False">>

\* float(value or 0): what is raised ("none" for nothing) and the float.
float_or_0(value) ==
    IF ~truthy(value) THEN [raises |-> "none", value |-> 0]
    ELSE CASE DOMAIN value = {"number"} -> [raises |-> "none", value |-> value.number]
           [] DOMAIN value = {"bool"} -> [raises |-> "none", value |-> as_float(1)]
           [] DOMAIN value = {"string"} ->
                IF float(value.string) = <<>>
                THEN [raises |-> "ValueError", value |-> 0]
                ELSE [raises |-> "none", value |-> float(value.string)[1]]
           [] OTHER -> [raises |-> "TypeError", value |-> 0]

\* [str(part).strip() for part in parts if part]
RECURSIVE stripped_parts(_)
stripped_parts(parts) ==
    IF parts = <<>> THEN <<>>
    ELSE IF truthy(Head(parts))
         THEN <<strip(str(Head(parts)))>> \o stripped_parts(Tail(parts))
         ELSE stripped_parts(Tail(parts))

nonempty(part) == part # <<>>

normalized_notes(payload) ==
    LET raw_notes == Get(payload, "notes", JString(<<>>))
    IN  IF is_dict(raw_notes)
        THEN LET notes_parts ==
                    <<strip(str(Get(raw_notes.object, "description", JString(<<>>)))),
                      strip(str(Get(raw_notes.object, "conclusions", JString(<<>>))))>>
             IN  join("\n", SelectSeq(notes_parts, nonempty))
        ELSE IF is_list(raw_notes)
        THEN join("\n", stripped_parts(raw_notes.array))
        ELSE strip(str(raw_notes))

\* from_dict that keeps every entry of an items list.
normalized_items_unfiltered(payload) ==
    LET raw_items == Get(payload, "items", JArray(<<>>))
    IN  IF is_dict(raw_items) THEN <<raw_items>>
        ELSE IF is_list(raw_items) THEN raw_items.array
        ELSE <<>>

normalized_items(payload) ==
    LET raw_items == Get(payload, "items", JArray(<<>>))
    IN  IF is_dict(raw_items) THEN <<raw_items>>
        ELSE IF is_list(raw_items) THEN SelectSeq(raw_items.array, is_dict)
        ELSE <<>>

\* MealAnalysis.from_dict: the fields are converted in the order calories,
\* protein, fat, carbs, and the first float() that raises ends the call.
from_dict(payload) ==
    LET notes == normalized_notes(payload)
        items == normalized_items(payload)
        number == [k \in Macros |-> float_or_0(Get(payload, k, JNumber(0)))]
        order == <<"calories", "protein", "fat", "carbs">>
        raising == {i \in DOMAIN order : number[order[i]].raises # "none"}
    IN  IF raising # {}
        THEN [raises |-> number[order[CHOOSE i \in raising : \A j \in raising : i <= j]].raises]
        ELSE [raises |-> "none",
              value |-> [calories |-> number["calories"].value,
                         protein |-> number["protein"].value,
                         fat |-> number["fat"].value, carbs |-> number["carbs"].value,
                         notes |-> notes, items |-> items]]

\* A key the payload does not have.
Absent == [absent |-> TRUE]

Soup == JObject([name |-> JString(<<"soup">>), calories |-> JNumber(as_float(120))])

Bread == JObject([name |-> JString(<<"bread">>), calories |-> JNumber(as_float(80))])

CaloriesValues ==
    {Absent, JNull, JNumber(0), JNumber(as_float(250)), JString(<<>>),
     JString(<<"2", "5", "0">>), JString(<<"m", "a", "n", "y">>), JArray(<<>>),
     JArray(<<JNumber(as_float(250))>>)}

ProteinValues == {Absent, JNumber(as_float(30)), JString(<<"?">>)}

NotesValues ==
    {Absent, JString(<<" ", "soup", " ">>),
     JArray(<<JString(<<"soup">>), JString(<<"bread">>), JString(<<"tea">>)>>),
     JArray(<<JString(<<"soup", " ">>), JString(<<>>), JString(<<" ">>),
              JString(<<" ", "tea">>)>>),
     JObject([description |-> JString(<<"soup">>), conclusions |-> JString(<<"light">>)]),
     JObject([conclusions |-> JString(<<"light">>)])}

ItemsValues ==
    {Absent, Soup, JArray(<<>>), JArray(<<Bread, Soup>>),
     JArray(<<Soup, JString(<<"bread">>), JNull, Bread>>), JString(<<"soup">>)}

\* The payload with the keys that have a value.
Payload(values) == [k \in {k \in DOMAIN values : values[k] # Absent} |-> values[k]]

CallFromDict(payload) ==
    /\ out' = [op |-> "from_dict", payload |-> payload, result |-> from_dict(payload)]
    /\ UNCHANGED <<day_logs, meals, session_vars>>

\* llm.py called directly on what the oracle may answer.
NextParsing ==
    \E calories \in CaloriesValues, protein \in ProteinValues, notes \in NotesValues,
       items \in ItemsValues :
        CallFromDict(Payload([calories |-> calories, protein |-> protein,
                              fat |-> JNumber(as_float(15)), carbs |-> JNumber(as_float(40)),
                              notes |-> notes, items |-> items]))

SpecParsing == Init /\ [][NextParsing]_vars

(***************************************************************************)
(* bot.py: the update loop of the Application.  _handle_meal_input is      *)
(* followed through its oracle call: `out` holds the call in flight, with  *)
(* the state and the scratch mapping of the user when it was issued.       *)
(***************************************************************************)
InFlight == out.op = "oracle_call"

\* Application.builder() with concurrent_updates(True).
takes_update_concurrently == TRUE

\* The builder sets no concurrent_updates: the next update is taken when the
\* handler of the last one has returned.  (The oracle call is a blocking call
\* without an await, so nothing else runs on the event loop meanwhile.)
takes_update == ~InFlight

\* _handle_meal_input up to analyze_meal_from_text / analyze_meal_from_image.
IssueOracleCall(handler, u, description, photo_bytes) ==
    /\ out' = [op |-> "oracle_call", user |-> u, reply |-> "waiting", calls |-> <<>>,
               handler |-> handler, description |-> description,
               photo_bytes |-> photo_bytes, state |-> conv[u], session |-> user_data[u]]
    /\ UNCHANGED <<users, reg, conv, user_data, day_logs, meals, today>>

\* The oracle call returns or raises, and _handle_meal_input runs to its end.
OracleReturns(answer) ==
    /\ InFlight
    /\ _handle_meal_input(out.handler, out.user, out.description, out.photo_bytes, answer)
    /\ UNCHANGED <<users, reg, day_logs, meals, today>>

\* The updates of user u the loop takes, one handler each.
Update(u) ==
    \/ log_day_start(u)
    \/ \E data \in DayButtons : log_day_choose_day(u, data)
    \/ \E data \in MealButtons : log_day_choose_meal(u, data)
    \/ \E data \in EntryButtons : log_day_entry_type(u, data)
    \/ \E d \in Descriptions :
            /\ reg[u] = "END" /\ conv[u] = "ENTER_TEXT"
            /\ IssueOracleCall("log_day_receive_text", u, d, NoPhoto)
    \/ \E c \in Captions, b \in Photos :
            /\ conv[u] = "ENTER_PHOTO"
            /\ IssueOracleCall("log_day_receive_photo", u, c, b)
    \/ \E choice \in ConfirmButtons :
            /\ choice = "confirm_yes" => Len(meals) < MaxConfirmed
            /\ log_day_confirm(u, choice)
    \/ \E answer \in OracleAnswers : log_day_correction(u, <<"less">>, answer)
    \/ _cancel_log(u)

NextUpdates ==
    \/ \E u \in Chatting : takes_update /\ Update(u)
    \/ \E answer \in OracleAnswers : OracleReturns(answer)

SpecUpdates == Init /\ [][NextUpdates]_vars

(***************************************************************************)
(* Claims about the storage layer.                                         *)
(***************************************************************************)
ActiveRows(u) ==
    {i \in DOMAIN day_logs : day_logs[i].telegram_id = u /\ day_logs[i].status = "active"}

StatusOf(logs, u, d) ==
    LET row == find_day_log(logs, u, isoformat(d))
    IN  IF row = 0 THEN "no-day-log" ELSE logs[row].status

AtMostOneActive == \A u \in Users : Cardinality(ActiveRows(u)) <= 1

\* A set_active_day(u, d2) call that directly follows set_active_day(u, d1), d1 # d2.
SecondSelection(u, d1, d2) ==
    /\ d1 # d2
    /\ out.op = "set_active_day" /\ out.telegram_id = u /\ out.log_date = d1
    /\ out'.op = "set_active_day" /\ out'.telegram_id = u /\ out'.log_date = d2

SwitchesActiveDay ==
    \A u \in Users, d1 \in Dates, d2 \in Dates :
        SecondSelection(u, d1, d2) =>
            /\ StatusOf(day_logs', u, d2) = "active"
            /\ StatusOf(day_logs', u, d1) = "closed"

\* C1: after any sequence of set_active_day and close_day calls by any users,
\* every user has at most one day log with status active; and when
\* set_active_day is called for a user with date d1 and then with another date
\* d2, the day log of d2 is active and the day log of d1 is closed.
C1_SingleActiveDay == [](AtMostOneActive) /\ [][SwitchesActiveDay]_vars

\* A user has selected a second date: the earlier day is closed, the later active.
C1_Witness ==
    /\ out.op = "set_active_day"
    /\ StatusOf(day_logs, out.telegram_id, out.log_date) = "active"
    /\ \E d \in Dates \ {out.log_date} : StatusOf(day_logs, out.telegram_id, d) = "closed"

\* The committed value of a stored meal, read back from its payloads: the
\* corrected estimate's when there is one, else the raw estimate's.
CommittedOf(meal, k) ==
    IF meal.corrected_payload # <<>>
    THEN meal.corrected_payload[2][k]
    ELSE meal.llm_payload[2][k]

RECURSIVE SumCommitted(_, _)
SumCommitted(ms, k) ==
    IF ms = <<>> THEN 0 ELSE CommittedOf(Head(ms), k) + SumCommitted(Tail(ms), k)

MealsAddedTo(day_log_id) == SelectSeq(meals, LAMBDA m : m.day_log_id = day_log_id)

TotalsAreSumOfMeals(u, d) ==
    LET summary == get_day_summary(day_logs, meals, u, d)
        row == find_day_log(day_logs, u, isoformat(d))
    IN  summary # <<>> =>
            \A k \in Macros : summary[1].totals[k] = SumCommitted(MealsAddedTo(row), k)

\* C2: after any sequence of add_meal_entry calls, get_day_summary of a day
\* returns totals (calories, protein, fat, carbs) each equal to the sum of the
\* committed values of exactly the meals added to that day; meals added to
\* other days do not contribute.
C2_TotalsAccumulate == \A u \in Users, d \in Dates : TotalsAreSumOfMeals(u, d)

\* One day holds two meals (a raw and a corrected one), another day holds a third.
C2_Witness ==
    /\ Len(meals) = 3
    /\ \E i \in DOMAIN day_logs, j \in DOMAIN day_logs :
          /\ i # j
          /\ Len(MealsAddedTo(i)) = 2
          /\ Len(MealsAddedTo(j)) = 1
          /\ \E m \in DOMAIN meals :
                meals[m].day_log_id = i /\ meals[m].corrected_payload # <<>>
          /\ \E m \in DOMAIN meals :
                meals[m].day_log_id = i /\ meals[m].corrected_payload = <<>>
          /\ day_logs[i].total_calories = 350

\* C3: update_meal_corrections changes the owning day's stored totals by
\* (new - old) committed values of that meal, so that after the correction the
\* day's totals again equal the sum of the committed values of all its meals.
C3_CorrectionUpdatesTotals ==
    out.op = "update_meal_corrections" =>
        LET row == meals[out.id].day_log_id
        IN  \A k \in Macros :
                day_logs[row]["total_" \o k] = SumCommitted(MealsAddedTo(row), k)

(***************************************************************************)
(* Claims about day finalization.                                          *)
(***************************************************************************)
\* The last event finalized a day (it found an active day of the user).
DayFinalization == out.op = "finish_day" /\ Has(out, "day")

FinalizedRow == find_day_log(day_logs, out.user, isoformat(out.day))

\* C4: a finalize-day event for a user whose active day has zero meals reports
\* emptiness, does not call the oracle's day summary, and leaves the day active.
C4_EmptyDayStaysOpen ==
    (DayFinalization /\ MealsAddedTo(FinalizedRow) = <<>>) =>
        /\ out.reply = "day_empty"
        /\ out.calls = <<>>
        /\ day_logs[FinalizedRow].status = "active"

\* The step is a finalize-day event of u in which the oracle's summary call failed.
SummaryFails(u) ==
    /\ out'.op = "finish_day" /\ out'.user = u
    /\ out'.calls # <<>> /\ ~out'.calls[1].ok

\* The step is a finalize-day event of u in which the oracle's summary call succeeded.
SummarySucceeds(u) ==
    /\ out'.op = "finish_day" /\ out'.user = u
    /\ out'.calls # <<>> /\ out'.calls[1].ok

FailedFinalizationKeepsDay ==
    \A u \in Chatting :
        SummaryFails(u) =>
            /\ day_logs' = day_logs
            /\ meals' = meals
            /\ StatusOf(day_logs', u, out'.day) = "active"
            /\ get_active_day(day_logs', u) # <<>>
            /\ get_active_day(day_logs', u)[1].day = out'.day

RetryClosesDay ==
    \A u \in Chatting :
        SummarySucceeds(u) =>
            /\ StatusOf(day_logs, u, out'.day) = "active"
            /\ StatusOf(day_logs', u, out'.day) = "closed"
            /\ get_day_summary(day_logs', meals', u, out'.day)
                   = get_day_summary(day_logs, meals, u, out'.day)
            /\ (out.op = "finish_day" /\ out.user = u /\ out.reply = "oracle_failed")
                   => out'.day = out.day

\* C5: when the oracle's summary call of a finalize-day event fails, the active
\* day stays active and its totals and meals are unchanged; a later finalize-day
\* event for which the oracle succeeds closes that same day.
C5_FailedFinalizationRetries == [][FailedFinalizationKeepsDay /\ RetryClosesDay]_vars

\* A finalization of a day with a meal has just failed: the day is still active.
C5_Witness ==
    /\ DayFinalization
    /\ out.calls # <<>> /\ ~out.calls[1].ok
    /\ MealsAddedTo(FinalizedRow) # <<>>
    /\ day_logs[FinalizedRow].status = "active"
    /\ day_logs[FinalizedRow].total_calories > 0

(***************************************************************************)
(* Claims about the meal-logging conversation.                             *)
(***************************************************************************)
\* The step is a confirm event of u in AwaitingConfirmation.
ConfirmEvent(u) ==
    /\ conv[u] = "CONFIRM"
    /\ out'.op = "log_day_confirm" /\ out'.user = u
    /\ out'.reply # "ask_correction"

ConfirmPersistsMeal(u) ==
    ConfirmEvent(u) =>
        /\ conv'[u] = "CHOOSE_MEAL"
        /\ Len(meals') = Len(meals) + 1
        /\ SubSeq(meals', 1, Len(meals)) = meals
        /\ Has(user_data[u], "log_date")
        /\ Has(user_data'[u], "log_date")
        /\ user_data'[u]["log_date"] = user_data[u]["log_date"]
        /\ LET meal == meals'[Len(meals')]
               analysis == user_data[u]["analysis"]
           IN  /\ meal.day_log_id
                     = find_day_log(day_logs', u, isoformat(user_data[u]["log_date"]))
               /\ meal.llm_payload = <<"json", to_dict(analysis)>>
               /\ meal.corrected_payload = <<>>
               /\ \A k \in Macros : meal[k] = analysis[k]

\* C6: in every reachable AwaitingConfirmation state, a confirm event persists
\* exactly one new meal on the day selected in this session, with raw and
\* committed values equal to the stashed estimate and no correction, and moves
\* the flow to ChooseMeal with the same day selected, whatever commands
\* (finalize-day among them) arrived earlier in the flow.
C6_ConfirmPersists == [][\A u \in Chatting : ConfirmPersistsMeal(u)]_vars

\* The stashed estimate, raw input, correction list and cached photo.
StashKeys == {"analysis", "user_input", "original_description", "corrections", "photo_bytes"}

Stash(ud) == [k \in (DOMAIN ud) \cap StashKeys |-> ud[k]]

\* The step is a content event of u in AwaitingContent whose oracle call failed.
ContentOracleFails(u) ==
    /\ conv[u] \in {"ENTER_TEXT", "ENTER_PHOTO"}
    /\ out'.op \in {"log_day_receive_text", "log_day_receive_photo"} /\ out'.user = u
    /\ out'.calls # <<>> /\ ~out'.calls[1].ok

ContentFailureChangesNothing ==
    \A u \in Chatting :
        ContentOracleFails(u) =>
            /\ conv'[u] = conv[u]
            /\ Stash(user_data'[u]) = Stash(user_data[u])
            /\ meals' = meals
            /\ day_logs' = day_logs

\* C7: when the oracle call fails on content submitted in AwaitingContent (text
\* or photo), the flow stays in the same AwaitingContent state, the stashed
\* estimate, raw input, correction list and cached photo are unchanged, and no
\* meal and no day total changes.
C7_ContentFailureStays == [][ContentFailureChangesNothing]_vars

\* The oracle has just failed on a photo: the flow still awaits a photo.
C7_Witness ==
    /\ out.op = "log_day_receive_photo"
    /\ ~out.calls[1].ok
    /\ out.calls[1].fn = "analyze_meal_from_image"
    /\ conv[out.user] = "ENTER_PHOTO"

CorrectionsOf(ud) == Get(ud, "corrections", <<>>)

\* The lines of a text: it is cut at every line break.
RECURSIVE SplitLines(_)
SplitLines(t) ==
    IF t = <<>>
    THEN <<>>
    ELSE LET breaks == {i \in DOMAIN t : t[i] = "\n"}
             cut == IF breaks = {}
                    THEN Len(t) + 1
                    ELSE CHOOSE i \in breaks : \A j \in breaks : i <= j
         IN  <<SubSeq(t, 1, cut - 1)>> \o SplitLines(SubSeq(t, cut + 1, Len(t)))

\* The corrections an oracle call carries: its lines without their bullets.
CorrectionsSent(call) ==
    LET lines == SplitLines(call.args.corrections)
    IN  [i \in DOMAIN lines |-> Tail(lines[i])]

\* The step is a correction of u that the oracle refined.
CorrectionAccepted(u) ==
    /\ conv[u] = "CORRECTION_TEXT"
    /\ out'.op = "log_day_correction" /\ out'.user = u
    /\ out'.calls[1].ok

\* The step is a meal description or photo of u that the oracle analysed.
EntryAnalysed(u) ==
    /\ out'.op \in {"log_day_receive_text", "log_day_receive_photo"} /\ out'.user = u
    /\ out'.calls[1].ok

CorrectionsAccumulate ==
    \A u \in Chatting :
        /\ EntryAnalysed(u) => CorrectionsOf(user_data'[u]) = <<>>
        /\ CorrectionAccepted(u) =>
              LET call == out'.calls[1]
                  ud == user_data[u]
              IN  /\ CorrectionsOf(user_data'[u]) = Append(CorrectionsOf(ud), out'.text)
                  /\ call.fn = "refine_meal_analysis"
                  /\ CorrectionsSent(call) = Append(CorrectionsOf(ud), out'.text)
                  /\ call.args.original_description = ud["original_description"]
                  /\ ud["entry_type"] = "image" =>
                        /\ call.args.image_bytes \in Photos
                        /\ call.args.image_bytes = ud["photo_bytes"]
                  /\ ud["entry_type"] = "text" => call.args.image_bytes = NoPhoto
        /\ ( /\ conv[u] \in {"CONFIRM", "CORRECTION_TEXT"}
             /\ conv'[u] \in {"CONFIRM", "CORRECTION_TEXT"}
             /\ ~CorrectionAccepted(u) )
              => CorrectionsOf(user_data'[u]) = CorrectionsOf(user_data[u])

\* C8: within one meal entry the correction list starts empty, each successful
\* correction appends its text and nothing else changes the list, so after k
\* successful corrections it is [c1, .., ck] in submission order; and the k-th
\* refinement call receives all of c1..ck, the original description and, for a
\* photo entry, the cached photo bytes.
C8_CorrectionsAccumulate == [][CorrectionsAccumulate]_vars

\* A photo entry's second, different correction has just been refined.
C8_Witness ==
    /\ out.op = "log_day_correction"
    /\ out.calls[1].ok
    /\ CorrectionsOf(user_data[out.user]) = << <<"less">>, <<"more">> >>
    /\ CorrectionsSent(out.calls[1]) = << <<"less">>, <<"more">> >>
    /\ out.calls[1].args.image_bytes \in Photos

\* The step is a correction of u on which the oracle failed.
RefinementFails(u) ==
    /\ conv[u] = "CORRECTION_TEXT"
    /\ out'.op = "log_day_correction" /\ out'.user = u
    /\ ~out'.calls[1].ok

RefinementFailureChangesNothing ==
    \A u \in Chatting :
        RefinementFails(u) =>
            /\ conv'[u] = "CORRECTION_TEXT"
            /\ CorrectionsOf(user_data'[u]) = CorrectionsOf(user_data[u])
            /\ Has(user_data'[u], "analysis")
            /\ user_data'[u]["analysis"] = user_data[u]["analysis"]
            /\ meals' = meals
            /\ day_logs' = day_logs

\* C9: when the refinement fails in AwaitingCorrection, the flow stays in
\* AwaitingCorrection, the failed correction text is not added to the
\* correction list, the stashed estimate is unchanged, and no meal is persisted.
C9_RefinementFailureStays == [][RefinementFailureChangesNothing]_vars

\* After one accepted correction, another text has just failed and is not kept.
C9_Witness ==
    /\ out.op = "log_day_correction"
    /\ ~out.calls[1].ok
    /\ conv[out.user] = "CORRECTION_TEXT"
    /\ CorrectionsOf(user_data[out.user]) = << <<"less">> >>
    /\ out.text = <<"more">>

FlowStates ==
    {"CHOOSE_DAY", "CHOOSE_MEAL", "CHOOSE_ENTRY_TYPE", "ENTER_TEXT", "ENTER_PHOTO",
     "CONFIRM", "CORRECTION_TEXT"}

CancelEndsFlow ==
    \A u \in Chatting :
        /\ conv[u] \in FlowStates => ENABLED _cancel_log(u)
        /\ (conv[u] \in FlowStates /\ out'.op = "_cancel_log" /\ out'.user = u) =>
              /\ conv'[u] = "END"
              /\ user_data'[u] = EmptyDict
              /\ meals' = meals
              /\ day_logs' = day_logs

\* C10: a cancel event is taken in every state of the meal-logging flow; it
\* ends the flow, leaves the session scratch mapping empty, creates no meal and
\* changes no day total.
C10_CancelEndsFlow == [][CancelEndsFlow]_vars

\* A flow with a stored meal and a stashed estimate has just been cancelled.
C10_Witness ==
    /\ out.op = "_cancel_log"
    /\ out.state = "CORRECTION_TEXT"
    /\ meals # <<>>
    /\ conv[out.user] = "END"
    /\ user_data[out.user] = EmptyDict

(***************************************************************************)
(* Claims about registration.                                              *)
(***************************************************************************)
RegistrationStates == <<"AGE", "SEX", "HEIGHT", "WEIGHT", "ACTIVITY", "GOAL", "END">>

\* Per registration state: the handler of its texts and rejected answers.
RegistrationHandler ==
    [AGE |-> "registration_age", SEX |-> "registration_sex",
     HEIGHT |-> "registration_height", WEIGHT |-> "registration_weight",
     ACTIVITY |-> "registration_activity", GOAL |-> "registration_goal"]

InvalidTexts ==
    [AGE |-> InvalidAgeTexts, SEX |-> InvalidSexTexts, HEIGHT |-> InvalidHeightTexts,
     WEIGHT |-> InvalidWeightTexts, ACTIVITY |-> InvalidActivityTexts,
     GOAL |-> InvalidGoalTexts]

\* The step is a text event of u in a registration state.
RegistrationText(u) ==
    /\ reg[u] \in DOMAIN RegistrationHandler
    /\ out'.user = u
    /\ out'.op = RegistrationHandler[reg[u]]

\* The step handles an invalid answer of u: in registration, or a typed date.
InvalidInput(u) ==
    \/ RegistrationText(u) /\ out'.text \in InvalidTexts[reg[u]]
    \/ /\ conv[u] = "CHOOSE_DAY"
       /\ out'.user = u /\ out'.op = "log_day_receive_date"
       /\ out'.text \in InvalidDateTexts

InvalidInputChangesNothing ==
    \A u \in Chatting :
        InvalidInput(u) =>
            /\ reg'[u] = reg[u]
            /\ conv'[u] = conv[u]
            /\ user_data'[u] = user_data[u]
            /\ users' = users
            /\ day_logs' = day_logs
            /\ meals' = meals

\* C11: an invalid input (a non-integer or out-of-range age, a height outside
\* [50, 250], a weight outside [30, 400], a sex, activity or goal text that is
\* no option, a typed date of the wrong format) leaves the flow in the same
\* state, the answers collected unchanged and the store unchanged.
C11_InvalidInputReprompts == [][InvalidInputChangesNothing]_vars

\* A weight above the range was typed after three answers: they are all kept.
C11_Witness ==
    /\ out.op = "registration_weight"
    /\ out.text = <<"4", "0", "1">>
    /\ reg[out.user] = "WEIGHT"
    /\ DOMAIN user_data[out.user]["registration"] = {"age", "sex", "height"}
    /\ users[out.user] = <<>>

\* The answer each accepted text gives, written out by hand.
AnswerGiven ==
    [AGE |-> [t \in ValidAgeTexts |-> IF t = <<"3", "0">> THEN 30 ELSE 45],
     SEX |-> [t \in ValidSexTexts |-> IF t = <<"M">> THEN "male" ELSE "female"],
     HEIGHT |-> [t \in ValidHeightTexts |-> 175 * Unit],
     WEIGHT |-> [t \in ValidWeightTexts |-> 68 * Unit + Unit \div 2],
     ACTIVITY |-> [t \in ValidActivityTexts |-> "moderate"],
     GOAL |-> [t \in ValidGoalTexts |-> IF t = <<"Losing">> THEN "lose" ELSE "gain"]]

AnswerKey ==
    [AGE |-> "age", SEX |-> "sex", HEIGHT |-> "height", WEIGHT |-> "weight",
     ACTIVITY |-> "activity", GOAL |-> "goal"]

\* The step handles a valid answer of u in a registration state.
ValidAnswer(u) ==
    /\ RegistrationText(u)
    /\ out'.text \in DOMAIN AnswerGiven[reg[u]]

\* The answers collected so far, as the scratch holds them.
Scratch(ud) == Get(ud, "registration", EmptyDict)

\* A valid answer before the goal step is noted in the scratch and nowhere else.
AnswerIsNoted ==
    \A u \in Chatting :
        ValidAnswer(u) /\ reg[u] # "GOAL" =>
            /\ Scratch(user_data'[u]) =
                   Put(IF reg[u] = "AGE" THEN EmptyDict ELSE Scratch(user_data[u]),
                       AnswerKey[reg[u]], AnswerGiven[reg[u]][out'.text])
            /\ users' = users

\* The profile of u made of the answers in the scratch and the goal chosen.
ProfileOf(u, answers, goal) ==
    [telegram_id |-> u, age |-> answers["age"], sex |-> answers["sex"],
     height |-> answers["height"], weight |-> answers["weight"],
     activity |-> answers["activity"], goal |-> goal,
     metrics |-> build_metrics(answers["weight"], answers["height"], answers["age"],
                               answers["sex"], answers["activity"], goal)]

\* A valid goal, with the five other answers collected, stores the profile and
\* drops the scratch.
GoalStoresProfile ==
    \A u \in Chatting :
        /\ ValidAnswer(u) /\ reg[u] = "GOAL"
        /\ DOMAIN Scratch(user_data[u]) = {"age", "sex", "height", "weight", "activity"}
        =>
            /\ users'[u] = <<ProfileOf(u, Scratch(user_data[u]), AnswerGiven.GOAL[out'.text])>>
            /\ \A other \in Users \ {u} : users'[other] = users[other]
            /\ ~Has(user_data'[u], "registration")

\* The users table changes in no other step.
ProfileWrittenAtGoalOnly ==
    \A u \in Users :
        users'[u] # users[u] => u \in Chatting /\ ValidAnswer(u) /\ reg[u] = "GOAL"

\* C12: a registration run with a valid age, sex, height, weight, activity
\* label and goal label persists exactly one profile for the user, written at
\* the goal step and never before; its stored inputs are the six answers, its
\* metrics are build_metrics of them, and the scratch is absent afterwards.
C12_RegistrationPersistsProfile ==
    [][AnswerIsNoted /\ GoalStoresProfile /\ ProfileWrittenAtGoalOnly]_vars

\* The goal was chosen after the answers 45, female, 175, 68.5, moderate.
C12_Witness ==
    /\ out.op = "registration_goal"
    /\ out.text = <<"Gaining">>
    /\ users[out.user] # <<>>
    /\ users[out.user][1].age = 45
    /\ users[out.user][1].sex = "female"
    /\ users[out.user][1].weight = 68 * Unit + Unit \div 2
    /\ users[out.user][1].goal = "gain"
    /\ ~Has(user_data[out.user], "registration")

\* The state after s in the order of the registration; Done has none.
NextState(s) ==
    LET places == {i \in 1..(Len(RegistrationStates) - 1) : RegistrationStates[i] = s}
    IN  IF places = {} THEN <<>>
        ELSE <<RegistrationStates[(CHOOSE i \in places : TRUE) + 1]>>

\* A step that is no start command keeps the state or moves it one forward.
OneStateForward ==
    \A u \in Users :
        ~(out'.op = "start" /\ out'.user = u) =>
            \/ reg'[u] = reg[u]
            \/ <<reg'[u]>> = NextState(reg[u])

\* A text in a registration state is taken by the handler of that state.
TextTakenByItsState ==
    \A u \in Chatting :
        out'.user = u /\ out'.op \in {RegistrationHandler[s] : s \in DOMAIN RegistrationHandler}
            => RegistrationText(u)

\* C13: registration visits its states only in the order AGE, SEX, HEIGHT,
\* WEIGHT, ACTIVITY, GOAL, Done: a text event leads to the same state or to
\* the next one, never further and never back; only a restart goes back.
C13_StatesInOrder == [][OneStateForward /\ TextTakenByItsState]_vars

\* The activity was accepted: the flow went from ACTIVITY to GOAL.
C13_Witness ==
    /\ out.op = "registration_activity"
    /\ out.reply = "ask_goal"
    /\ reg[out.user] = "GOAL"

\* The step is a start command of u.
StartEvent(u) == out'.op = "start" /\ out'.user = u

StartWithProfile ==
    \A u \in Chatting :
        StartEvent(u) /\ users[u] # <<>> =>
            /\ reg'[u] = "END"
            /\ out'.reply = "welcome_back"
            /\ users' = users

\* C14: a start event for a user with a stored profile enters no registration
\* state: it answers with the welcome-back message, ends the flow and leaves
\* the stored profile unchanged.
C14_StartWithProfileEnds == [][StartWithProfile]_vars

\* A registered user sent /start.
C14_Witness ==
    /\ out.op = "start"
    /\ out.reply = "welcome_back"
    /\ users[out.user] # <<>>
    /\ reg[out.user] = "END"

\* A start command in a registration state puts the flow back to AGE.
RestartGoesToAge ==
    \A u \in Chatting :
        /\ StartEvent(u)
        /\ reg[u] \in DOMAIN RegistrationHandler
        /\ users[u] = <<>>
        => reg'[u] = "AGE" /\ out'.reply = "ask_age" /\ users' = users

\* The keys of the answers given before state s of one run.
KeysBefore(s) ==
    {AnswerKey[RegistrationStates[i]] :
        i \in {j \in 1..(Len(RegistrationStates) - 1) :
                  \E k \in (j + 1)..Len(RegistrationStates) : RegistrationStates[k] = s}}

\* Past AGE the scratch holds the answers of the states passed since AGE was
\* last answered, and no other.
ScratchIsOfThisRun ==
    \A u \in Chatting :
        reg[u] \in DOMAIN RegistrationHandler \ {"AGE"} =>
            DOMAIN Scratch(user_data[u]) = KeysBefore(reg[u])

\* An accepted answer replaces what the scratch held under its key; the age
\* replaces the whole scratch.
AnswerReplaces ==
    \A u \in Chatting :
        ValidAnswer(u) /\ reg[u] # "GOAL" =>
            /\ Scratch(user_data'[u])[AnswerKey[reg[u]]] = AnswerGiven[reg[u]][out'.text]
            /\ \A k \in DOMAIN Scratch(user_data'[u]) \ {AnswerKey[reg[u]]} :
                   /\ reg[u] # "AGE"
                   /\ k \in DOMAIN Scratch(user_data[u])
                   /\ Scratch(user_data'[u])[k] = Scratch(user_data[u])[k]

\* C15: a start event in any registration state, for a user without a
\* profile, puts the flow back to AGE, and the profile persisted later is made
\* of answers given after that restart only: no earlier answer survives.
C15_RestartFromTheTop == [][RestartGoesToAge /\ AnswerReplaces /\ ScratchIsOfThisRun']_vars

\* /start was sent when age, sex and height had been answered.
C15_Witness ==
    /\ out.op = "start"
    /\ out.reply = "ask_age"
    /\ reg[out.user] = "AGE"
    /\ DOMAIN Scratch(user_data[out.user]) = {"age", "sex", "height"}

(***************************************************************************)
(* Claims about events outside a flow and about day finalization.          *)
(***************************************************************************)
\* The step is a press of a flow button by u, who is in no meal-logging flow.
ButtonOutsideFlow(u) ==
    /\ conv[u] = "END"
    /\ out'.user = u
    /\ out'.op = "unhandled_callback"
    /\ out'.pattern \in FlowPatterns

ExpiredButtonIsAnswered ==
    \A u \in Chatting :
        ButtonOutsideFlow(u) =>
            /\ out'.reply = "session_expired"
            /\ user_data' = user_data
            /\ <<users, day_logs, meals>>' = <<users, day_logs, meals>>

\* C16: a press of a flow button (day_*, meal_*, entry_*, confirm_*) by a user
\* with no meal-logging flow in progress is answered with the session-expired
\* message and changes neither the session nor the store.
C16_ExpiredButtonAnswered == [][ExpiredButtonIsAnswered]_vars

SuccessfulFinalizationCloses ==
    \A u \in Chatting :
        SummarySucceeds(u) =>
            /\ get_active_day(day_logs, u) # <<>>
            /\ get_active_day(day_logs, u)[1].day = out'.day
            /\ StatusOf(day_logs', u, out'.day) = "closed"
            /\ get_active_day(day_logs', u) = <<>>
            /\ ~Has(user_data'[u], "log_date")
            /\ ~Has(user_data'[u], "day_log_id")

\* C17: a successful finalize-day event (an active day exists and the oracle's
\* summary succeeds) marks that day closed, leaves the user without an active
\* day in the store, and removes the selected date and the day-log id from the
\* session.
C17_FinalizationClosesDay == [][SuccessfulFinalizationCloses]_vars

\* A day with a meal was finalized in the middle of the meal-logging flow.
C17_Witness ==
    /\ DayFinalization
    /\ out.reply = "day_closed"
    /\ MealsAddedTo(FinalizedRow) # <<>>
    /\ day_logs[FinalizedRow].status = "closed"
    /\ conv[out.user] = "CHOOSE_MEAL"
    /\ Has(user_data[out.user], "current_user")
    /\ ~Has(user_data[out.user], "day_log_id")

\* The four totals of a DayLog row.
TotalsOf(row) == [k \in Macros |-> row["total_" \o k]]

\* The step is a finalize-day event.
FinalizeEvent == out'.op = "finish_day"

FinalizationKeepsMealData ==
    FinalizeEvent =>
        /\ meals' = meals
        /\ DOMAIN day_logs' = DOMAIN day_logs
        /\ \A i \in DOMAIN day_logs : TotalsOf(day_logs'[i]) = TotalsOf(day_logs[i])

\* C18: a finalize-day event, in every outcome (no profile, no active day,
\* empty day, oracle failure, success) and however often it is repeated, leaves
\* every MealEntry and the four totals of every DayLog unchanged.
C18_FinalizationKeepsMealData == [][FinalizationKeepsMealData]_vars

\* A day with two meals was closed: its totals are still those of the meals.
C18_Witness ==
    /\ DayFinalization
    /\ out.reply = "day_closed"
    /\ Len(MealsAddedTo(FinalizedRow)) = 2
    /\ day_logs[FinalizedRow].status = "closed"
    /\ \A k \in Macros :
           day_logs[FinalizedRow]["total_" \o k] = SumCommitted(MealsAddedTo(FinalizedRow), k)
    /\ day_logs[FinalizedRow].total_calories > 0

(***************************************************************************)
(* Claims about the rows of day_logs.                                      *)
(***************************************************************************)
\* UNIQUE(telegram_id, day)
OneRowPerUserAndDay ==
    \A i, j \in DOMAIN day_logs :
        (day_logs[i].telegram_id = day_logs[j].telegram_id /\ day_logs[i].day = day_logs[j].day)
            => i = j

\* The step is a set_active_day(u, d) call.
SetActiveDayCall(u, d) ==
    out'.op = "set_active_day" /\ out'.telegram_id = u /\ out'.log_date = d

\* A call for a (user, date) that has a row returns that row's id and adds no
\* row; a call repeating the call before it changes nothing at all.
SetActiveDayAgain ==
    \A u \in Users, d \in Dates :
        SetActiveDayCall(u, d) =>
            /\ find_day_log(day_logs, u, isoformat(d)) # 0 =>
                   /\ out'.id = find_day_log(day_logs, u, isoformat(d))
                   /\ Len(day_logs') = Len(day_logs)
            /\ (out.op = "set_active_day" /\ out.telegram_id = u /\ out.log_date = d) =>
                   /\ out'.id = out.id
                   /\ day_logs' = day_logs
            /\ find_day_log(day_logs', u, isoformat(d)) = out'.id

\* C19: set_active_day is idempotent per (user, date): a second call with the
\* same user and date returns the same DayLog id and creates no second row, so
\* there is at most one DayLog per (user id, date) after any sequence of calls.
C19_SetActiveDayIdempotent == [](OneRowPerUserAndDay) /\ [][SetActiveDayAgain]_vars

\* The call returned the id of the first row while the table holds two rows:
\* the day had its row before the call.
C19_Witness ==
    /\ out.op = "set_active_day"
    /\ out.id = 1
    /\ Len(day_logs) = 2
    /\ day_logs[1].status = "active"

\* The step is a selection of a date by u in ChooseDay.
DaySelection(u) ==
    /\ conv[u] = "CHOOSE_DAY"
    /\ out'.user = u
    /\ out'.op \in {"log_day_choose_day", "log_day_receive_date"}
    /\ out'.reply = "day_selected"

\* The row of the date a selection step selects, before the step (0: none).
SelectedRow(u) == find_day_log(day_logs, u, isoformat(user_data'[u]["log_date"]))

ClosedDayReopens ==
    \A u \in Chatting :
        (DaySelection(u) /\ SelectedRow(u) # 0 /\ day_logs[SelectedRow(u)].status = "closed") =>
            /\ DOMAIN day_logs' = DOMAIN day_logs
            /\ day_logs'[SelectedRow(u)] = [day_logs[SelectedRow(u)] EXCEPT !.status = "active"]
            /\ user_data'[u]["day_log_id"] = SelectedRow(u)
            /\ get_active_day(day_logs', u) =
                   <<[id |-> SelectedRow(u), day |-> user_data'[u]["log_date"]]>>
            /\ meals' = meals

\* A confirmed meal goes to the day selected and adds its values to the totals
\* the day had.
ConfirmedMealAddsToTotals ==
    \A u \in Chatting :
        (out'.op = "log_day_confirm" /\ out'.user = u /\ out'.reply = "saved") =>
            /\ Has(user_data[u], "day_log_id")
            /\ Len(meals') = Len(meals) + 1
            /\ SubSeq(meals', 1, Len(meals)) = meals
            /\ LET row == user_data[u]["day_log_id"]
                   meal == meals'[Len(meals')]
               IN  /\ meal.day_log_id = row
                   /\ day_logs[row].status = "active"
                   /\ day_logs[row].day = isoformat(user_data[u]["log_date"])
                   /\ \A k \in Macros :
                          TotalsOf(day_logs'[row])[k] =
                              TotalsOf(day_logs[row])[k] + CommittedOf(meal, k)

\* C20: selecting the date of a closed DayLog in ChooseDay reopens that same
\* DayLog: it becomes active with the same id, its meals and totals are kept,
\* and meals confirmed afterwards are added to those totals.
C20_ClosedDayReopens == [][ClosedDayReopens /\ ConfirmedMealAddsToTotals]_vars

\* A meal on the first day, one on the second, then one on the first again:
\* the first day was closed by the choice of the second and reopened, and its
\* totals are those of its two meals.
C20_Witness ==
    /\ Len(meals) = 3
    /\ meals[1].day_log_id = 1
    /\ meals[2].day_log_id = 2
    /\ meals[3].day_log_id = 1
    /\ day_logs[1].status = "active"
    /\ \A k \in Macros :
           TotalsOf(day_logs[1])[k] = CommittedOf(meals[1], k) + CommittedOf(meals[3], k)
    /\ day_logs[1].total_calories > 0

(***************************************************************************)
(* Claims about the statistics.                                            *)
(***************************************************************************)
\* The dates from first to last on which user u has a row.
DatesWithRow(u, first, last) ==
    {d \in first..last :
        \E i \in DOMAIN day_logs :
            day_logs[i].telegram_id = u /\ fromisoformat(day_logs[i].day) = d}

\* The entries are those of the dates, one each, the earliest first, with the
\* totals of the date's row.
EntriesOfDates(u, rows, dates) ==
    /\ {fromisoformat(rows[i].day) : i \in DOMAIN rows} = dates
    /\ Len(rows) = Cardinality(dates)
    /\ \A i, j \in DOMAIN rows :
           i < j => fromisoformat(rows[i].day) < fromisoformat(rows[j].day)
    /\ \A i \in DOMAIN rows :
           rows[i] = period_entry(day_logs[find_day_log(day_logs, u, rows[i].day)])

\* C21: iter_period_totals(user, start, end) returns one entry for exactly each
\* date from start to end, both included, on which the user has a DayLog row
\* (rows without meals too), in strictly ascending order of the dates, and no
\* entry for a date without a row or for a row of another user.
C21_PeriodTotalsOfRange ==
    out.op = "iter_period_totals" =>
        EntriesOfDates(out.telegram_id, out.rows,
                       DatesWithRow(out.telegram_id, out.start, out.end))

\* The later date got its row first and has a meal, the earlier one has none:
\* both are returned, the earlier first.
C21_Witness ==
    /\ out.op = "iter_period_totals"
    /\ Len(out.rows) = 2
    /\ Len(day_logs) = 2
    /\ fromisoformat(day_logs[2].day) < fromisoformat(day_logs[1].day)
    /\ out.rows[1].day = day_logs[2].day
    /\ out.rows[1].total_calories = 0
    /\ out.rows[2].total_calories > 0

\* The number of dates the period of a statistics button covers.
PeriodLength(data) == IF data = "stats_week" THEN 7 ELSE 30

\* The sum of a column over the entries with the indices given.
RECURSIVE ColumnTotal(_, _, _)
ColumnTotal(rows, indices, k) ==
    IF indices = {} THEN 0
    ELSE LET i == CHOOSE i \in indices : TRUE
         IN  rows[i]["total_" \o k] + ColumnTotal(rows, indices \ {i}, k)

\* The statistics just sent were asked with a period button by a user with a profile.
StatisticsAsked == out.op = "stats_callback" /\ out.reply \in {"statistics", "no_records"}

\* C22: the statistics of 'week' cover exactly the 7 dates today-6..today and
\* those of 'month' exactly the 30 dates today-29..today, and the grand total
\* reported for each macro is the sum of that macro over the per-day rows
\* returned for the range.
C22_StatisticsOfPeriod ==
    StatisticsAsked =>
        /\ out.end = today
        /\ out.start = today - (PeriodLength(out.data) - 1)
        /\ Cardinality(out.start..out.end) = PeriodLength(out.data)
        /\ EntriesOfDates(out.user, out.rows,
                          DatesWithRow(out.user, today - (PeriodLength(out.data) - 1), today))
        /\ (out.reply = "no_records") = (out.rows = <<>>)
        /\ out.reply = "statistics" =>
               \A k \in Macros : out.totals[k] = ColumnTotal(out.rows, DOMAIN out.rows, k)

\* The week was asked with a row on the day before it and a row with a meal in it.
C22_Witness ==
    /\ StatisticsAsked
    /\ out.data = "stats_week"
    /\ Len(out.rows) = 1
    /\ out.totals["calories"] > 0
    /\ \E i \in DOMAIN day_logs :
           /\ day_logs[i].telegram_id = out.user
           /\ fromisoformat(day_logs[i].day) = today - 7

(***************************************************************************)
(* Claims about calculations.py.                                           *)
(***************************************************************************)
\* calculate_bmr was just called for 70 kg, 175 cm, 30 years and the sex given.
BmrOfExample(sex) ==
    /\ out.op = "calculate_bmr"
    /\ out.weight = as_float(70) /\ out.height = as_float(175) /\ out.age = 30
    /\ out.sex = sex

\* C23: bmr(weight=70, height=175, age=30, male) equals 1680 and
\* bmr(weight=70, height=175, age=30, female) equals 1514.
C23_BmrLiterals ==
    /\ BmrOfExample("male") => out.result = as_float(1680)
    /\ BmrOfExample("female") => out.result = as_float(1514)

\* C23, amended: bmr(weight=70, height=175, age=30, male) equals 1648.75 and
\* bmr(weight=70, height=175, age=30, female) equals 1482.75.
C23_BmrLiteralsOfFormula ==
    /\ BmrOfExample("male") => out.result = as_float(1648) + 3 * (Unit \div 4)
    /\ BmrOfExample("female") => out.result = as_float(1482) + 3 * (Unit \div 4)

\* The example was computed for a woman.
C23_Witness == BmrOfExample("female") /\ out.result = as_float(1482) + 3 * (Unit \div 4)

\* The Mifflin-St Jeor value without its offset, in float units: 6.25 is 25/4,
\* and every height of the model is a whole number of quarters of a unit.
BmrWithoutOffset(weight, height, age) == 10 * weight + 25 * (height \div 4) - 5 * age * Unit

\* C24: for every weight, height and age in the validated ranges bmr returns
\* 10*weight + 6.25*height - 5*age + 5 for male and the same with - 161 for
\* female, so that the male value is larger by exactly 166; for a sex that is
\* neither it fails with an error.
C24_BmrIsMifflinStJeor ==
    out.op = "calculate_bmr" =>
        IF out.sex = "male"
        THEN /\ out.height % 4 = 0
             /\ out.result = BmrWithoutOffset(out.weight, out.height, out.age) + 5 * Unit
        ELSE IF out.sex = "female"
        THEN /\ out.height % 4 = 0
             /\ out.result = BmrWithoutOffset(out.weight, out.height, out.age) - 161 * Unit
             /\ calculate_bmr(out.weight, out.height, out.age, "male") - out.result
                    = 166 * Unit
        ELSE out.result = "ValueError"

\* The largest values of the ranges, for a woman: 4000 + 1562.5 - 600 - 161.
C24_Witness ==
    /\ out.op = "calculate_bmr"
    /\ out.weight = as_float(400) /\ out.height = as_float(250) /\ out.age = 120
    /\ out.sex = "female"
    /\ out.result = as_float(4801) + Unit \div 2

\* C25: for every goal, weight and calorie target the carbohydrate target of
\* calculate_macros is never negative: it is a quarter of what the calorie
\* target leaves after 4 kcal per gram of protein and 9 per gram of fat when
\* that is positive, and 0 otherwise; protein and fat are the goal's grams per
\* kilogram times the weight.
C25_CarbsNeverNegative ==
    out.op = "calculate_macros" =>
        LET protein == out.result[1]
            fat == out.result[2]
            carbs == out.result[3]
            left == out.calorie_target - 4 * protein - 9 * fat
        IN  /\ PROTEIN_TARGETS[out.goal][2] * protein = PROTEIN_TARGETS[out.goal][1] * out.weight
            /\ FAT_TARGETS[out.goal][2] * fat = FAT_TARGETS[out.goal][1] * out.weight
            /\ carbs >= 0
            /\ IF left > 0 THEN 4 * carbs = left ELSE carbs = 0

\* 400 kg and 1200 kcal: protein and fat alone take more than the target.
C25_Witness ==
    /\ out.op = "calculate_macros"
    /\ out.weight = as_float(400) /\ out.calorie_target = as_float(1200)
    /\ out.calorie_target < 4 * out.result[1] + 9 * out.result[2]
    /\ out.result[3] = 0

(***************************************************************************)
(* Claims about llm.py.                                                    *)
(***************************************************************************)
\* The value the payload of the last call has under a key.
FieldOf(k) == Get(out.payload, k, Absent)

\* The number a value is or writes: <<>> for a value that is absent, null or
\* not numeric.
NumberWritten(value) ==
    IF DOMAIN value = {"number"} THEN <<value.number>>
    ELSE IF DOMAIN value = {"string"} THEN float(value.string)
    ELSE <<>>

\* C26: parsing an oracle response never raises on a numeric field (calories,
\* protein, fat, carbs) that is absent, null or not numeric: that field becomes
\* 0 and the other fields are parsed normally.
C26_NumericFieldsDefaultToZero ==
    out.op = "from_dict" =>
        /\ out.result.raises = "none"
        /\ \A k \in Macros :
                out.result.value[k] = IF NumberWritten(FieldOf(k)) = <<>>
                                      THEN 0
                                      ELSE NumberWritten(FieldOf(k))[1]

IsListOfStrings(value) ==
    /\ is_list(value)
    /\ \A i \in DOMAIN value.array : DOMAIN value.array[i] = {"string"}

RECURSIVE Lines(_)
Lines(texts) ==
    IF texts = <<>> THEN <<>>
    ELSE IF Len(texts) = 1 THEN Head(texts)
    ELSE Head(texts) \o <<"\n">> \o Lines(Tail(texts))

\* The strings of a list as they are, and as they are after the empty ones are
\* left out and the others lose the blanks at their ends.
RECURSIVE StringsOf(_)
StringsOf(values) ==
    IF values = <<>> THEN <<>> ELSE <<Head(values).string>> \o StringsOf(Tail(values))

RECURSIVE Trimmed(_)
Trimmed(t) ==
    IF t # <<>> /\ Head(t) = " " THEN Trimmed(Tail(t))
    ELSE IF t # <<>> /\ t[Len(t)] = " " THEN Trimmed(SubSeq(t, 1, Len(t) - 1))
    ELSE t

RECURSIVE TrimmedNonEmpty(_)
TrimmedNonEmpty(texts) ==
    IF texts = <<>> THEN <<>>
    ELSE IF Head(texts) = <<>> THEN TrimmedNonEmpty(Tail(texts))
    ELSE <<Trimmed(Head(texts))>> \o TrimmedNonEmpty(Tail(texts))

RECURSIVE ObjectsOf(_)
ObjectsOf(values) ==
    IF values = <<>> THEN <<>>
    ELSE IF DOMAIN Head(values) = {"object"} THEN <<Head(values)>> \o ObjectsOf(Tail(values))
    ELSE ObjectsOf(Tail(values))

\* A single object becomes a one-element list; a list keeps its objects.
ItemsNormalized ==
    /\ is_dict(FieldOf("items")) => out.result.value.items = <<FieldOf("items")>>
    /\ is_list(FieldOf("items")) => out.result.value.items = ObjectsOf(FieldOf("items").array)

\* C27: parsing an oracle response normalizes notes given as a list of strings
\* to those strings joined by newlines in order, and items given as a single
\* object to a one-element list; items given as a list keeps exactly its object
\* entries in order and drops the others.
C27_NotesAndItemsNormalized ==
    out.op = "from_dict" /\ out.result.raises = "none" =>
        /\ IsListOfStrings(FieldOf("notes")) =>
                out.result.value.notes = Lines(StringsOf(FieldOf("notes").array))
        /\ ItemsNormalized

\* C27, amended: the notes of a list of strings are its non-empty strings, each
\* without the blanks at its ends, joined by newlines in order; items as in
\* the claim.
C27_NotesTrimmedAndItemsNormalized ==
    out.op = "from_dict" /\ out.result.raises = "none" =>
        /\ IsListOfStrings(FieldOf("notes")) =>
                out.result.value.notes
                    = Lines(TrimmedNonEmpty(StringsOf(FieldOf("notes").array)))
        /\ ItemsNormalized

\* Notes with an empty, a blank and two padded strings; items with a string and
\* a null between two objects.
C27_Witness ==
    /\ out.op = "from_dict" /\ out.result.raises = "none"
    /\ IsListOfStrings(FieldOf("notes")) /\ Len(FieldOf("notes").array) = 4
    /\ out.result.value.notes = <<"soup", "\n", "\n", "tea">>
    /\ is_list(FieldOf("items")) /\ Len(FieldOf("items").array) = 4
    /\ out.result.value.items = <<Soup, Bread>>

(***************************************************************************)
(* Claims about the session of a user.                                     *)
(***************************************************************************)
SessionCleared(u) == reg'[u] = "END" /\ conv'[u] = "END" /\ user_data'[u] = EmptyDict

\* The step is a /cancel of u sent while one of the two flows is active.
CancelInFlow(u) ==
    /\ reg[u] # "END" \/ conv[u] # "END"
    /\ out'.op \in {"_cancel_log", "unhandled_cancel"}
    /\ out'.user = u

\* The step is the goal answer that completes the registration of u.
RegistrationCompletes(u) ==
    /\ reg[u] = "GOAL" /\ reg'[u] = "END"
    /\ out'.op = "registration_goal" /\ out'.user = u

CancelClearsSession == \A u \in Chatting : CancelInFlow(u) => SessionCleared(u)

CompletionClearsSession == \A u \in Chatting : RegistrationCompletes(u) => SessionCleared(u)

\* C28: the session of a user is cleared (no active flow, empty scratch
\* mapping) after an explicit cancel whichever flow is active, registration or
\* meal logging, and after the registration flow completes.
C28_SessionCleared == [][CancelClearsSession /\ CompletionClearsSession]_vars

\* The step applies the result of the oracle call in flight.
ResultApplied ==
    /\ out'.op = out.handler /\ out'.user = out.user
    /\ Len(out'.calls) = 1 /\ out'.calls[1].args.description = out.description

\* C29: the events of one user are handled strictly one at a time: nothing is
\* handled between the issue of an oracle call and the application of its
\* result, so the result is applied to the session as it was when the call was
\* issued, never to one that was cancelled or moved on meanwhile.
C29_OneEventAtATime ==
    [][InFlight =>
          /\ ResultApplied
          /\ conv[out.user] = out.state
          /\ user_data[out.user] = out.session]_vars

\* The estimate of a call issued while a text was awaited has been stashed.
C29_Witness ==
    /\ out.op = "log_day_receive_text" /\ out.reply = "analysis"
    /\ conv[out.user] = "CONFIRM"
    /\ Has(user_data[out.user], "analysis")

(***************************************************************************)
(* Claims about the order of the meal-logging flow.                        *)
(***************************************************************************)
ForwardSteps ==
    {<<"CHOOSE_DAY", "CHOOSE_MEAL">>, <<"CHOOSE_MEAL", "CHOOSE_ENTRY_TYPE">>,
     <<"CHOOSE_ENTRY_TYPE", "ENTER_TEXT">>, <<"CHOOSE_ENTRY_TYPE", "ENTER_PHOTO">>,
     <<"ENTER_TEXT", "CONFIRM">>, <<"ENTER_PHOTO", "CONFIRM">>,
     <<"CONFIRM", "CORRECTION_TEXT">>, <<"CORRECTION_TEXT", "CONFIRM">>,
     <<"CONFIRM", "CHOOSE_MEAL">>}

\* A step of the flow of u goes forward, stays in its state or ends the flow;
\* a flow starts at the choice of the day.
AlongTheFlow(u) ==
    IF conv[u] = "END"
    THEN conv'[u] \in {"END", "CHOOSE_DAY"}
    ELSE \/ conv'[u] \in {conv[u], "END"}
         \/ <<conv[u], conv'[u]>> \in ForwardSteps

\* From the confirmation back to the choice of the meal: only the confirm button.
BackOnConfirmOnly(u) ==
    conv[u] = "CONFIRM" /\ conv'[u] = "CHOOSE_MEAL" =>
        out'.op = "log_day_confirm" /\ out'.user = u /\ out'.reply = "saved"

\* The confirmation is entered by the handler whose oracle call succeeded.
ConfirmationAfterOracle(u) ==
    conv[u] # "CONFIRM" /\ conv'[u] = "CONFIRM" =>
        /\ out'.user = u /\ out'.reply = "analysis"
        /\ Len(out'.calls) = 1 /\ out'.calls[1].ok

\* C30: the meal-logging flow changes state only along choice of the day ->
\* choice of the meal -> choice of the entry type -> awaiting the text or the
\* photo -> confirmation, confirmation -> correction -> confirmation (any
\* number of times) and confirmation -> choice of the meal on confirm; every
\* other step stays in its state or ends the flow, and the confirmation is
\* entered only right after a successful oracle call.
C30_FlowOrder ==
    [][\A u \in Chatting :
            AlongTheFlow(u) /\ BackOnConfirmOnly(u) /\ ConfirmationAfterOracle(u)]_vars

\* The confirmation has been entered from the correction for the second time.
C30_Witness ==
    \E u \in Chatting :
        /\ conv[u] = "CONFIRM"
        /\ out.op = "log_day_correction" /\ out.reply = "analysis"
        /\ Get(user_data[u], "corrections", <<>>) = <<(<<"less">>), (<<"less">>)>>

(***************************************************************************)
(* Claims about the store under the events of the conversations.           *)
(***************************************************************************)
\* The meals stored stay as they are.
MealsKept == Len(meals') >= Len(meals) /\ \A i \in DOMAIN meals : meals'[i] = meals[i]

\* A new meal is the one meal of a confirm taken in the confirmation state.
MealByConfirmOnly ==
    Len(meals') # Len(meals) =>
        /\ Len(meals') = Len(meals) + 1
        /\ out'.op = "log_day_confirm" /\ out'.reply = "saved"
        /\ conv[out'.user] = "CONFIRM"

\* C31: a meal is created only by a confirm event in the confirmation state
\* (never by a description or photo, a correction, a cancel, a finalization or
\* the choice of a day), and no event of the conversations changes a field or a
\* committed value of a stored meal.
C31_MealsCreatedByConfirmOnly == [][MealsKept /\ MealByConfirmOnly]_vars

\* With a meal stored, the estimate of the next entry has been corrected.
C31_Witness ==
    /\ Len(meals) = 1
    /\ out.op = "log_day_correction" /\ out.reply = "analysis"

\* The rows of u that are active after the step.
ActiveRowsAfter(u) ==
    {i \in DOMAIN day_logs' : day_logs'[i].telegram_id = u /\ day_logs'[i].status = "active"}

\* The date a step from the choice of the day selects: the date typed, or
\* today, or the day of the session's active-day record.
DateSelectedBy(u, selected) ==
    IF out'.op = "log_day_receive_date"
    THEN IsDateText(strip(out'.text)) /\ selected = DigitValue[strip(out'.text)[2]]
    ELSE /\ out'.op = "log_day_choose_day"
         /\ \/ selected = today
            \/ /\ Has(user_data[u], "active_day_info")
               /\ selected = user_data[u]["active_day_info"].day

\* The step leaves the choice of the day for the choice of the meal.
DaySelected(u) == conv[u] = "CHOOSE_DAY" /\ conv'[u] = "CHOOSE_MEAL"

SelectedDayIsActiveDay(u) ==
    DaySelected(u) =>
        LET ud == user_data'[u]
        IN  /\ {"log_date", "day_log_id", "active_day_info"} \subseteq DOMAIN ud
            /\ ud["day_log_id"] \in DOMAIN day_logs'
            /\ day_logs'[ud["day_log_id"]].telegram_id = u
            /\ day_logs'[ud["day_log_id"]].day = isoformat(ud["log_date"])
            /\ ActiveRowsAfter(u) = {ud["day_log_id"]}
            /\ ud["active_day_info"] = [id |-> ud["day_log_id"], day |-> ud["log_date"]]
            /\ DateSelectedBy(u, ud["log_date"])

\* The flow start offers the current day exactly when the user has an active
\* day, and notes that day in the session.
CurrentDayOffered(u) ==
    (out'.op = "log_day_start" /\ out'.user = u /\ conv'[u] = "CHOOSE_DAY") =>
        /\ out'.reply = "offer_current" <=> ActiveRows(u) # {}
        /\ Has(user_data'[u], "active_day_info") <=> ActiveRows(u) # {}
        /\ ActiveRows(u) # {} =>
              /\ user_data'[u]["active_day_info"].id \in ActiveRows(u)
              /\ isoformat(user_data'[u]["active_day_info"].day)
                    = day_logs[user_data'[u]["active_day_info"].id].day

\* While the day is being chosen, the day noted in the session is the day
\* that was offered: the user's active day.
NotedDayIsActive ==
    \A u \in Chatting :
        (conv[u] = "CHOOSE_DAY" /\ Has(user_data[u], "active_day_info")) =>
            /\ user_data[u]["active_day_info"].id \in ActiveRows(u)
            /\ isoformat(user_data[u]["active_day_info"].day)
                  = day_logs[user_data[u]["active_day_info"].id].day

\* C32: whenever the flow moves from the choice of the day to the choice of
\* the meal (current day, today or a valid typed date), the chosen date's row
\* is the user's single active day and the session's date and day-log id refer
\* to that row; the current day is offered only when the user had an active day
\* at the flow start, and selecting it selects exactly that day.
C32_SelectedDayIsActive ==
    /\ [](NotedDayIsActive)
    /\ [][\A u \in Chatting : SelectedDayIsActiveDay(u) /\ CurrentDayOffered(u)]_vars

\* The current day was offered and selected while another row of the user is
\* closed.
C32_Witness ==
    \E u \in Chatting :
        /\ conv[u] = "CHOOSE_MEAL" /\ out.op = "log_day_choose_day"
        /\ Len(day_logs) = 2
        /\ user_data[u]["log_date"] # today
        /\ ActiveRows(u) = {user_data[u]["day_log_id"]}

(***************************************************************************)
(* Claims about the stored profiles.                                       *)
(***************************************************************************)
\* The derived attributes of a profile are those of its own inputs.
DerivedFromInputs(user) ==
    LET bmr == calculate_bmr(user.weight, user.height, user.age, user.sex)
        tdee == calculate_tdee(bmr, user.activity)
        calorie_target == calculate_calorie_target(tdee, user.goal)
        macros == calculate_macros(user.weight, calorie_target, user.goal)
    IN  /\ user.metrics.bmr = bmr
        /\ user.metrics.tdee = tdee
        /\ user.metrics.calorie_target = calorie_target
        /\ user.metrics.protein_target_g = macros[1]
        /\ user.metrics.fat_target_g = macros[2]
        /\ user.metrics.carb_target_g = macros[3]

ProfilesDerived == \A u \in Users : users[u] # <<>> => DerivedFromInputs(users[u][1])

\* A profile changes only as a whole, written by the last registration step.
ProfileWrittenWhole ==
    \A u \in Users :
        users'[u] # users[u] =>
            /\ out'.op = "registration_goal" /\ out'.user = u
            /\ users'[u] # <<>> /\ users'[u][1].telegram_id = u

\* C33: in every reachable state the derived attributes of every stored
\* profile (bmr, tdee, calorie target, protein, fat and carbohydrate targets)
\* are build_metrics of the profile's stored weight, height, age, sex, activity
\* and goal; no operation updates a derived attribute or an input on its own.
C33_ProfileDerivedFromInputs == [](ProfilesDerived) /\ [][ProfileWrittenWhole]_vars

\* A registration with the goal of losing weight has stored its profile.
C33_Witness ==
    /\ out.op = "registration_goal"
    /\ users[out.user] # <<>>
    /\ users[out.user][1].goal = "lose"
    /\ users[out.user][1].metrics.calorie_target < users[out.user][1].metrics.tdee

\* The meals stored on row i.
MealsOn(mls, i) == SelectSeq(mls, LAMBDA m : m.day_log_id = i)

\* A new meal goes to a row that is an active day of the user confirming, at
\* the insertion and after it.
InsertedIntoActiveDay ==
    Len(meals') > Len(meals) =>
        LET row == meals'[Len(meals')].day_log_id
        IN  /\ row \in ActiveRowsAfter(out'.user)
            /\ row \in DOMAIN day_logs => row \in ActiveRows(out'.user)

\* A row that is closed gets no meal.
ClosedDayGetsNothing ==
    \A i \in DOMAIN day_logs :
        day_logs[i].status = "closed" => MealsOn(meals', i) = MealsOn(meals, i)

\* C34: no meal is ever inserted into a row that is not the user's active day
\* at the moment of insertion: after a finalize-day closed the day while the
\* flow was at the choice of the meal or later, a confirm in that flow adds
\* nothing to the closed day.
C34_NoMealOnClosedDay == [][InsertedIntoActiveDay /\ ClosedDayGetsNothing]_vars

\* A confirm after the day of a flow in the confirmation state was closed:
\* nothing was stored on it.
C34_Witness ==
    /\ out.op = "log_day_confirm" /\ out.reply = "error"
    /\ conv[out.user] = "CONFIRM"
    /\ ActiveRows(out.user) = {}
    /\ \E i \in DOMAIN day_logs : day_logs[i].telegram_id = out.user /\ day_logs[i].status = "closed"

(***************************************************************************)
(* Claims about the scratch of one meal entry.                             *)
(***************************************************************************)
EntryKeys == StashKeys \cup {"entry_type", "meal_type"}

\* At the choice of the meal nothing of an entry is in the session; until the
\* content is analysed there is no stash; photo bytes belong to a photo entry.
EntryScratchFresh ==
    \A u \in Chatting :
        /\ conv[u] = "CHOOSE_MEAL" => DOMAIN user_data[u] \cap EntryKeys = {}
        /\ conv[u] \in {"CHOOSE_ENTRY_TYPE", "ENTER_TEXT", "ENTER_PHOTO"} =>
              DOMAIN user_data[u] \cap StashKeys = {}
        /\ Has(user_data[u], "photo_bytes") =>
              Has(user_data[u], "entry_type") /\ user_data[u]["entry_type"] = "image"

\* The analysed content starts the stash of its entry: its own description,
\* its own photo or none, no correction.
ContentStartsStash(u) ==
    (conv[u] \in {"ENTER_TEXT", "ENTER_PHOTO"} /\ conv'[u] = "CONFIRM") =>
        LET ud == user_data'[u]
            call == out'.calls[1]
        IN  /\ ud["corrections"] = <<>>
            /\ ud["original_description"] = call.args.description
            /\ ud["user_input"] = call.args.description
            /\ IF conv[u] = "ENTER_PHOTO"
               THEN call.fn = "analyze_meal_from_image"
                    /\ ud["photo_bytes"] = call.args.image_bytes
               ELSE call.fn = "analyze_meal_from_text" /\ ~Has(ud, "photo_bytes")

\* A refinement is asked with the description and photo of the stash and with
\* its corrections followed by the new one.
RefinementOfThisEntry(u) ==
    (conv[u] = "CORRECTION_TEXT" /\ out'.op = "log_day_correction" /\ out'.user = u
     /\ out'.calls[1].fn = "refine_meal_analysis") =>
        LET ud == user_data[u]
            args == out'.calls[1].args
        IN  /\ args.original_description = ud["original_description"]
            /\ args.image_bytes = Get(ud, "photo_bytes", NoPhoto)
            /\ ud["entry_type"] = "text" => args.image_bytes = NoPhoto
            /\ args.corrections
                  = Lines([i \in 1..(Len(ud["corrections"]) + 1) |->
                             <<"- ">> \o Trimmed(IF i <= Len(ud["corrections"])
                                                 THEN ud["corrections"][i]
                                                 ELSE out'.text)])

\* C35: the scratch of one meal does not leak into the next: each time the
\* flow enters the choice of the meal the stashed estimate, raw input, original
\* description, cached photo, correction list, entry type and meal slot are
\* absent, so a refinement for one meal never gets corrections, a description
\* or photo bytes of an earlier meal, and a text entry never carries photo
\* bytes.
C35_EntryScratchDoesNotLeak ==
    /\ [](EntryScratchFresh)
    /\ [][\A u \in Chatting : ContentStartsStash(u) /\ RefinementOfThisEntry(u)]_vars

\* After a stored photo entry, a text entry is being corrected: the refinement
\* got no photo and the one correction of this entry.
C35_Witness ==
    \E u \in Chatting :
        /\ Len(meals) = 1 /\ meals[1].entry_type = "image"
        /\ out.op = "log_day_correction" /\ out.user = u
        /\ out.calls[1].fn = "refine_meal_analysis"
        /\ user_data[u]["entry_type"] = "text"
        /\ out.calls[1].args.image_bytes = NoPhoto
        /\ out.calls[1].args.corrections = <<"- ", "more">>

(***************************************************************************)
(* Claims about the life of a profile and the two conversations.           *)
(***************************************************************************)
\* A stored profile stays as it is, whatever the event.
ProfileKept == \A u \in Users : users[u] # <<>> => users'[u] = users[u]

\* With a stored profile no event leads into a state of the registration.
RegistrationNotReentered == \A u \in Users : users[u] # <<>> => reg'[u] = "END"

\* The last step of the registration stores the profile of a user who had none.
ProfileWrittenOnce ==
    (out'.op = "registration_goal" /\ out'.reply = "profile_ready") =>
        users[out'.user] = <<>> /\ users'[out'.user] # <<>>

AfterAge == {"SEX", "HEIGHT", "WEIGHT", "ACTIVITY", "GOAL"}

\* One conversation at a time, each on its side of the stored profile; past
\* the age the answers of the registration are in the session.
OneFlowAtATime ==
    \A u \in Users :
        /\ ~(reg[u] # "END" /\ conv[u] # "END")
        /\ conv[u] # "END" => users[u] # <<>>
        /\ reg[u] # "END" => users[u] = <<>>
        /\ reg[u] \in AfterAge => Has(user_data[u], "registration")

\* The meal logging starts with a profile, a state of the registration is
\* entered without one, and a handler of the registration finds the answers
\* given so far.
FlowsStartOnTheirSide ==
    \A u \in Users :
        /\ (conv[u] = "END" /\ conv'[u] # "END") => users[u] # <<>>
        /\ (reg'[u] # "END" /\ reg'[u] # reg[u]) => users[u] = <<>>
        /\ (out'.user = u /\ out'.op \in {"registration_sex", "registration_height",
                "registration_weight", "registration_activity", "registration_goal"}) =>
              /\ Has(user_data[u], "registration")
              /\ out'.reply # "error"

\* C37: for one user the registration and the meal logging are never both in
\* progress: the meal logging starts only when a profile exists and a state of
\* the registration is entered only when none exists, so the handlers of the
\* registration never run without the answers kept since the age.
C37_FlowsNeverOverlap == [](OneFlowAtATime) /\ [][FlowsStartOnTheirSide]_vars

\* In the middle of the registration the menu button of the meal logging is
\* pressed: nothing starts, and the next answer is taken.
C37_Witness ==
    \E u \in Chatting :
        /\ reg[u] = "HEIGHT"
        /\ conv[u] = "END"
        /\ Has(user_data[u], "registration")
        /\ out.op = "log_day_start" /\ out.user = u /\ out.reply = "none"

(***************************************************************************)
(* Claims about two users.                                                 *)
(***************************************************************************)
\* What the store and the sessions hold of user b is as before the step, and
\* no row is added in b's name.
Untouched(b) ==
    /\ users'[b] = users[b]
    /\ reg'[b] = reg[b] /\ conv'[b] = conv[b] /\ user_data'[b] = user_data[b]
    /\ Len(day_logs') >= Len(day_logs) /\ Len(meals') >= Len(meals)
    /\ \A i \in DOMAIN day_logs : day_logs[i].telegram_id = b => day_logs'[i] = day_logs[i]
    /\ \A i \in DOMAIN day_logs' \ DOMAIN day_logs : day_logs'[i].telegram_id # b
    /\ \A i \in DOMAIN meals :
          day_logs[meals[i].day_log_id].telegram_id = b => meals'[i] = meals[i]
    /\ \A i \in DOMAIN meals' \ DOMAIN meals :
          day_logs'[meals'[i].day_log_id].telegram_id # b

\* C38: users are isolated: no event of one user changes the profile, the
\* day rows (status, totals), the meals or the session of another; so neither
\* the selection of a day nor the finalization by one user changes the status
\* of a day of another.
C38_UsersIsolated == [][\A b \in Users : out'.user # b => Untouched(b)]_vars

\* Both users have an active day, the first one with a meal on it, and the
\* second one has just selected theirs.
C38_Witness ==
    /\ out.op = "log_day_choose_day" /\ out.user = 2
    /\ ActiveRows(2) # {}
    /\ \E i \in ActiveRows(1) : \E m \in DOMAIN meals : meals[m].day_log_id = i

\* The second user finalizes their day while the first one's stays active.
C38_WitnessFinalized ==
    /\ out.op = "finish_day" /\ out.user = 2 /\ out.reply = "day_closed"
    /\ ActiveRows(2) = {} /\ ActiveRows(1) # {}

(***************************************************************************)
(* Claims about the status of a day.                                       *)
(***************************************************************************)
\* The step selects a day in CHOOSE_DAY.
SelectionInChooseDay ==
    /\ out'.op \in {"log_day_choose_day", "log_day_receive_date"}
    /\ conv[out'.user] = "CHOOSE_DAY" /\ conv'[out'.user] = "CHOOSE_MEAL"

\* The step finalizes a day.
DayFinalized == out'.op = "finish_day" /\ out'.reply = "day_closed"

\* A row appears or changes its status in a selection or a finalization only.
StatusChangesBySelectionOrFinalize ==
    /\ Len(day_logs') >= Len(day_logs)
    /\ (\/ Len(day_logs') > Len(day_logs)
        \/ \E i \in DOMAIN day_logs : day_logs'[i].status # day_logs[i].status)
          => SelectionInChooseDay \/ DayFinalized

\* The start of the flow offers the active day exactly when there is one.
ActiveDayOffered ==
    (out'.op = "log_day_start" /\ users[out'.user] # <<>>) =>
        LET u == out'.user
        IN  /\ out'.reply = "offer_current" <=> ActiveRows(u) # {}
            /\ ActiveRows(u) # {} =>
                  /\ Has(user_data'[u], "active_day_info")
                  /\ user_data'[u]["active_day_info"] = get_active_day(day_logs, u)[1]

EnsuringHandlers == {"log_day_start", "finish_day", "stats", "profile"}

\* Without a profile their events start no flow and write nothing.
NothingWithoutProfile ==
    (out'.op \in EnsuringHandlers /\ users[out'.user] = <<>>) =>
        /\ conv' = conv /\ reg' = reg /\ user_data' = user_data
        /\ users' = users /\ day_logs' = day_logs /\ meals' = meals

\* Every day and every meal is of a user with a stored profile.
RowsOfRegisteredUsers ==
    /\ \A i \in DOMAIN day_logs : users[day_logs[i].telegram_id] # <<>>
    /\ \A m \in DOMAIN meals :
          /\ meals[m].day_log_id \in DOMAIN day_logs
          /\ users[day_logs[meals[m].day_log_id].telegram_id] # <<>>

\* C40: the events that begin the meal logging, finalize the day, show the
\* statistics and show the profile, sent by a user with no stored profile,
\* start no flow and change nothing in the store, so in every reachable state
\* every day and every meal belongs to a user who has a stored profile.
C40_NothingWithoutProfile == [](RowsOfRegisteredUsers) /\ [][NothingWithoutProfile]_vars

\* The visitor asks to finalize a day while the registered user has an active
\* day with a meal.
C40_Witness ==
    \E v \in Visitors :
        /\ users[v] = <<>>
        /\ out.op = "finish_day" /\ out.user = v /\ out.reply = "none"
        /\ \E u \in Chatting :
              \E i \in ActiveRows(u) : \E m \in DOMAIN meals : meals[m].day_log_id = i

====
